---- MODULE Spec2Model ----
(***************************************************************************)
(* Model of the code-retrieval engine of terminal-helper: the BM25 index   *)
(* (bm25.ts), the vector store (vectorStore.ts), the hybrid fuser          *)
(* (hybridSearch.ts) and the coordinator (rag/index.ts).                   *)
(*                                                                         *)
(* Conventions.                                                            *)
(*  - Text is a TLA+ string; a character is a string of length 1.          *)
(*  - A JavaScript Map is a function; where the iteration order of a Map   *)
(*    decides a result (the score map of search, the merge map of          *)
(*    mergeResults) it is a sequence of entries in insertion order.        *)
(*  - A rational is a record [num, den]. BM25 scores are numbers in fixed  *)
(*    point with 4 decimals (the value times 10^4, rounded down): the      *)
(*    model does not cover the rounding of IEEE doubles.                   *)
(*  - A finite vector component is an integer in units of 0.1 (the integer *)
(*    1 is 0.1); NaN and Infinity are values of their own.                 *)
(***************************************************************************)
EXTENDS Integers, Sequences, FiniteSets, TLC

VARIABLES
    bm25,         \* the BM25Index object of the BM25 specification
    vectorIndex,  \* the VectorIndex wrapper of the vector specification
    disk,         \* the files of the project and of its .terminal_helper/rag-data/
    faiss,        \* the faiss-node module the process loaded
    saver,        \* a save in progress, file write by file write
    sess,         \* a loading session running beside an indexing session
    lastOp        \* the last operation, its inputs and what it returned

vars == <<bm25, vectorIndex, disk, faiss, saver, sess, lastOp>>

-----------------------------------------------------------------------------
(* Bounds of the model *)

MaxDocs == 3
MaxK == 3

-----------------------------------------------------------------------------
(* Generic helpers *)

Min(a, b) == IF a <= b THEN a ELSE b
Max(a, b) == IF a >= b THEN a ELSE b

RECURSIVE Gcd(_, _)
Gcd(a, b) == IF b = 0 THEN a ELSE Gcd(b, a % b)

EmptyMap == [x \in {} |-> x]

MapSet(m, k, v) == [x \in DOMAIN m \cup {k} |-> IF x = k THEN v ELSE m[x]]

Range(s) == {s[i] : i \in DOMAIN s}

RECURSIVE SeqSum(_)
SeqSum(s) == IF s = <<>> THEN 0 ELSE Head(s) + SeqSum(Tail(s))

\* Array.prototype.slice(start, end), for 0 <= start <= end
slice(seq, start, end) == SubSeq(seq, start + 1, Min(end, Len(seq)))

-----------------------------------------------------------------------------
(* Text: String.prototype methods used by the tokenizer *)

CharAt(s, i) == SubSeq(s, i, i)

\* the characters of a string, as a set
Chars(s) == {CharAt(s, i) : i \in 1..Len(s)}

UpperChars == "ABCDEFGHIJKLMNOPQRSTUVWXYZ"
LowerChars == "abcdefghijklmnopqrstuvwxyz"

UpperSet == Chars(UpperChars)

LowerChar(c) ==
    IF c \in UpperSet
    THEN CharAt(LowerChars, CHOOSE i \in 1..Len(UpperChars) : CharAt(UpperChars, i) = c)
    ELSE c

\* a text is mapped character by character, one half after the other
RECURSIVE toLowerCase(_)
toLowerCase(s) ==
    IF Len(s) = 0 THEN ""
    ELSE IF Len(s) = 1 THEN LowerChar(s)
    ELSE toLowerCase(SubSeq(s, 1, Len(s) \div 2))
         \o toLowerCase(SubSeq(s, Len(s) \div 2 + 1, Len(s)))

\* s.replace(/[set]/g, ' ')
RECURSIVE replaceWithSpace(_, _)
replaceWithSpace(s, set) ==
    IF Len(s) = 0 THEN ""
    ELSE IF Len(s) = 1 THEN (IF s \in set THEN " " ELSE s)
    ELSE replaceWithSpace(SubSeq(s, 1, Len(s) \div 2), set)
         \o replaceWithSpace(SubSeq(s, Len(s) \div 2 + 1, Len(s)), set)

\* the characters of the class \s that the modelled texts hold
WhiteSpace == Chars(" \n\t\r")

\* the least and the greatest member of a set of positions, 0 when it is empty
First(positions) ==
    IF positions = {} THEN 0
    ELSE CHOOSE x \in positions : \A y \in positions : x <= y

Last(positions) ==
    IF positions = {} THEN 0
    ELSE CHOOSE x \in positions : \A y \in positions : x >= y

\* the first position >= i at which sub occurs in s, 0 when there is none
IndexOfFrom(s, sub, i) ==
    First({j \in i .. Len(s) - Len(sub) + 1 : SubSeq(s, j, j + Len(sub) - 1) = sub})

\* the position after the longest run, starting at i, of characters that are
\* in set (inside = TRUE) or not in set (inside = FALSE)
RunEnd(s, i, set, inside) ==
    LET stops == {j \in i .. Len(s) : (CharAt(s, j) \in set) # inside}
    IN  IF stops = {} THEN Max(i, Len(s) + 1) ELSE First(stops)

\* s.split(/\s+/).filter(token => token.length > 0), from position i on
RECURSIVE splitWords(_, _)
splitWords(s, i) ==
    LET start == RunEnd(s, i, WhiteSpace, TRUE)
        end == RunEnd(s, start, WhiteSpace, FALSE)
    IN  IF start > Len(s) THEN <<>>
        ELSE <<SubSeq(s, start, end - 1)>> \o splitWords(s, end)

endsWith(s, suffix) ==
    /\ Len(s) >= Len(suffix)
    /\ SubSeq(s, Len(s) - Len(suffix) + 1, Len(s)) = suffix

\* s.slice(0, -n)
dropLast(s, n) == SubSeq(s, 1, Max(Len(s) - n, 0))

-----------------------------------------------------------------------------
(* bm25.ts: configuration and tokenizer *)

DEFAULT_K1 == [num |-> 12, den |-> 10]
DEFAULT_B == [num |-> 75, den |-> 100]
DEFAULT_EPSILON == [num |-> 25, den |-> 100]

STOPWORDS ==
    {"a", "an", "and", "are", "as", "at", "be", "but", "by", "for", "if", "in",
     "into", "is", "it", "no", "not", "of", "on", "or", "such", "that", "the",
     "their", "then", "there", "these", "they", "this", "to", "was", "will", "with"}

\* the three character classes _tokenize replaces with a space
CodeDelimiters == Chars("{}()[]") \cup Chars(";:,.") \cup Chars("-+*/%=<>!&|^~")

\* a stemmer that strips the ending of a short token as well
_stem_WithoutLengthCheck(token) ==
    IF endsWith(token, "ing") THEN dropLast(token, 3)
    ELSE IF endsWith(token, "ed") THEN dropLast(token, 2)
    ELSE IF endsWith(token, "s") /\ ~endsWith(token, "ss") THEN dropLast(token, 1)
    ELSE IF endsWith(token, "ly") THEN dropLast(token, 2)
    ELSE IF endsWith(token, "ment") THEN dropLast(token, 4)
    ELSE token

_stem(token) ==
    IF Len(token) <= 3 THEN token
    ELSE IF endsWith(token, "ing") THEN dropLast(token, 3)
    ELSE IF endsWith(token, "ed") THEN dropLast(token, 2)
    ELSE IF endsWith(token, "s") /\ ~endsWith(token, "ss") THEN dropLast(token, 1)
    ELSE IF endsWith(token, "ly") THEN dropLast(token, 2)
    ELSE IF endsWith(token, "ment") THEN dropLast(token, 4)
    ELSE token

_tokenize(options, text) ==
    LET lowered == IF options.lowercase THEN toLowerCase(text) ELSE text
        split == IF options.splitOnCode
                 THEN replaceWithSpace(lowered, CodeDelimiters)
                 ELSE lowered
        words == splitWords(split, 1)
        NotStop(t) == t \notin STOPWORDS
        kept == IF options.removeStopwords THEN SelectSeq(words, NotStop) ELSE words
    IN  IF options.stemming THEN [i \in DOMAIN kept |-> _stem(kept[i])] ELSE kept

-----------------------------------------------------------------------------
(* bm25.ts: the BM25Index class *)

DefaultTokenizationOptions ==
    [lowercase |-> TRUE, removeStopwords |-> TRUE, stemming |-> TRUE, splitOnCode |-> TRUE]

\* new BM25Index(options): an option is on unless it is given as false
NewBM25Index(options) ==
    [k1 |-> IF "k1" \in DOMAIN options THEN options.k1 ELSE DEFAULT_K1,
     b |-> IF "b" \in DOMAIN options THEN options.b ELSE DEFAULT_B,
     epsilon |-> IF "epsilon" \in DOMAIN options THEN options.epsilon ELSE DEFAULT_EPSILON,
     documents |-> <<>>,
     documentMetadata |-> EmptyMap,
     invertedIndex |-> EmptyMap,
     documentLengths |-> <<>>,
     averageDocumentLength |-> [num |-> 0, den |-> 1],
     documentCount |-> 0,
     vocabulary |-> {},
     tokenizationOptions |->
        [o \in DOMAIN DefaultTokenizationOptions |->
            ~(o \in DOMAIN options /\ options[o] = FALSE)]]

\* an average that is the length of the last document
UpdateAverage_LastLength(avg, count, docLength) == [num |-> docLength, den |-> 1]

\* (avg * count + docLength) / (count + 1), as a fraction in lowest terms
UpdateAverage(avg, count, docLength) ==
    LET n == avg.num * count + docLength * avg.den
        d == avg.den * (count + 1)
        g == Gcd(n, d)
    IN  [num |-> n \div g, den |-> d \div g]

\* the termFrequencies map of addDocument
TermFrequencies(tokens) ==
    [t \in Range(tokens) |-> Cardinality({i \in DOMAIN tokens : tokens[i] = t})]

\* the body of addDocument after its guard: tokenize, append, update the
\* average length, the vocabulary and the posting lists
IndexDocument(idx, document) ==
    LET tokens == _tokenize(idx.tokenizationOptions, document.content)
        docIndex == idx.documentCount
        docLength == Len(tokens)
        tf == TermFrequencies(tokens)
        old == idx.invertedIndex
    IN  [idx EXCEPT
            !.documents = Append(@, [id |-> document.id, content |-> document.content]),
            !.documentMetadata = MapSet(@, document.id, document.metadata),
            !.documentLengths = Append(@, docLength),
            !.averageDocumentLength = UpdateAverage(@, idx.documentCount, docLength),
            !.documentCount = @ + 1,
            !.vocabulary = @ \cup Range(tokens),
            !.invertedIndex =
                [t \in DOMAIN old \cup DOMAIN tf |->
                    IF t \in DOMAIN tf
                    THEN Append(IF t \in DOMAIN old THEN old[t] ELSE <<>>,
                                [docIndex |-> docIndex, frequency |-> tf[t]])
                    ELSE old[t]]]

\* addDocument without its guard on a chunk id that is already indexed
addDocument_NoGuard(idx, document) == IndexDocument(idx, document)

addDocument(idx, document) ==
    IF document.id \in DOMAIN idx.documentMetadata
    THEN idx
    ELSE IndexDocument(idx, document)

RECURSIVE addDocuments(_, _)
addDocuments(idx, documents) ==
    IF documents = <<>> THEN idx
    ELSE addDocuments(addDocument(idx, Head(documents)), Tail(documents))

\* Resolution of the fixed-point scores
ScoreScale == 10^4

\* sum of pow/n + pow*z2/(n+2) + ... until the power vanishes
RECURSIVE AtanhSeries(_, _, _)
AtanhSeries(pow, z2, n) ==
    IF pow = 0 THEN 0
    ELSE pow \div n + AtanhSeries((pow * z2) \div ScoreScale, z2, n + 2)

\* Math.log(p/q) for p >= q > 0, in fixed point: 2 * atanh((p-q)/(p+q))
LnFixed(p, q) ==
    LET z == (ScoreScale * (p - q)) \div (p + q)
    IN  2 * AtanhSeries(z, (z * z) \div ScoreScale, 1)

\* Math.log(1 + (N - n + 0.5) / (n + 0.5) + epsilon)
_calculateIDF(idx, term) ==
    LET docsWithTerm == IF term \in DOMAIN idx.invertedIndex
                        THEN Len(idx.invertedIndex[term]) ELSE 0
        half == 2 * docsWithTerm + 1
        e == idx.epsilon
    IN  LnFixed(half * e.den + (2 * idx.documentCount - 2 * docsWithTerm + 1) * e.den
                    + e.num * half,
                half * e.den)

\* idf * (tf * (k1 + 1)) / (tf + k1 * (1 - b + b * (docLength / avgDocLength)))
_calculateBM25Score(idx, docIndex, termFrequency, idf) ==
    LET docLength == idx.documentLengths[docIndex + 1]
        avg == idx.averageDocumentLength
        k1 == idx.k1
        b == idx.b
        n == termFrequency * (k1.num + k1.den) * b.den * avg.num
        d == termFrequency * k1.den * b.den * avg.num
             + k1.num * ((b.den - b.num) * avg.num + b.num * docLength * avg.den)
    IN  (idf * ((ScoreScale * n) \div d)) \div ScoreScale

\* scores.set(docId, (scores.get(docId) ?? 0) + score): a Map keeps the place
\* of a key it already holds
ScoreAdd(scores, docId, score) ==
    IF \E i \in DOMAIN scores : scores[i].id = docId
    THEN [i \in DOMAIN scores |->
            IF scores[i].id = docId
            THEN [id |-> docId, score |-> scores[i].score + score]
            ELSE scores[i]]
    ELSE Append(scores, [id |-> docId, score |-> score])

RECURSIVE ScorePostings(_, _, _, _)
ScorePostings(idx, postings, idf, scores) ==
    IF postings = <<>> THEN scores
    ELSE LET p == Head(postings)
         IN  ScorePostings(idx, Tail(postings), idf,
                 ScoreAdd(scores, idx.documents[p.docIndex + 1].id,
                          _calculateBM25Score(idx, p.docIndex, p.frequency, idf)))

\* the loop of search over the query tokens, in the order of the query
RECURSIVE ScoreTerms(_, _, _)
ScoreTerms(idx, queryTokens, scores) ==
    IF queryTokens = <<>> THEN scores
    ELSE LET term == Head(queryTokens)
         IN  ScoreTerms(idx, Tail(queryTokens),
                 IF term \notin DOMAIN idx.invertedIndex THEN scores
                 ELSE ScorePostings(idx, idx.invertedIndex[term],
                                    _calculateIDF(idx, term), scores))

\* Array.prototype.sort((a, b) => b.score - a.score): stable, descending
RECURSIVE SortByScoreDesc(_)
SortByScoreDesc(s) ==
    IF s = <<>> THEN <<>>
    ELSE LET x == s[Len(s)]
             rest == SortByScoreDesc(SubSeq(s, 1, Len(s) - 1))
             keep == Cardinality({i \in DOMAIN rest : rest[i].score >= x.score})
         IN  SubSeq(rest, 1, keep) \o <<x>> \o SubSeq(rest, keep + 1, Len(rest))

\* search that keeps only the documents of the first query term found in the index
search_FirstTermOnly(idx, query, k) ==
    LET queryTokens == _tokenize(idx.tokenizationOptions, query)
        known == SelectSeq(queryTokens, LAMBDA t : t \in DOMAIN idx.invertedIndex)
        scores == ScoreTerms(idx, SubSeq(known, 1, Min(1, Len(known))), <<>>)
        results == [i \in DOMAIN scores |->
                        [id |-> scores[i].id, score |-> scores[i].score,
                         metadata |-> idx.documentMetadata[scores[i].id]]]
        sorted == SortByScoreDesc(results)
    IN  SubSeq(sorted, 1, Min(k, Len(sorted)))

search(idx, query, k) ==
    LET queryTokens == _tokenize(idx.tokenizationOptions, query)
        scores == ScoreTerms(idx, queryTokens, <<>>)
        results == [i \in DOMAIN scores |->
                        [id |-> scores[i].id, score |-> scores[i].score,
                         metadata |-> idx.documentMetadata[scores[i].id]]]
        sorted == SortByScoreDesc(results)
    IN  SubSeq(sorted, 1, Min(k, Len(sorted)))

(* Files. A file is absent, holds a complete JSON text (its parsed value is  *)
(* data), or holds a proper prefix of the text of a write that did not end.  *)
AbsentFile == [state |-> "absent"]
JsonFile(data) == [state |-> "json", data |-> data]
PartialFile == [state |-> "partial"]

\* Array.from(map.entries())
Entries(m) == {<<key, m[key]>> : key \in DOMAIN m}

\* new Map(entries)
MapFromEntries(entries) ==
    [key \in {e[1] : e \in entries} |-> (CHOOSE e \in entries : e[1] = key)[2]]

\* the text save writes: JSON.stringify(indexData)
save(idx) ==
    JsonFile([parameters |-> [k1 |-> idx.k1, b |-> idx.b, epsilon |-> idx.epsilon],
              tokenizationOptions |-> idx.tokenizationOptions,
              documents |-> idx.documents,
              documentMetadata |-> Entries(idx.documentMetadata),
              invertedIndex |-> Entries(idx.invertedIndex),
              documentLengths |-> idx.documentLengths,
              averageDocumentLength |-> idx.averageDocumentLength,
              documentCount |-> idx.documentCount,
              vocabulary |-> idx.vocabulary])

\* load that builds the index with the default tokenizer options
load_DefaultOptions(file) ==
    IF file.state = "absent" THEN [ok |-> FALSE, error |-> "Index file not found"]
    ELSE IF file.state = "partial" THEN [ok |-> FALSE, error |-> "SyntaxError"]
    ELSE LET indexData == file.data
             index == NewBM25Index(indexData.parameters)
         IN  [ok |-> TRUE,
              index |-> [index EXCEPT
                  !.documents = indexData.documents,
                  !.documentMetadata = MapFromEntries(indexData.documentMetadata),
                  !.invertedIndex = MapFromEntries(indexData.invertedIndex),
                  !.documentLengths = indexData.documentLengths,
                  !.averageDocumentLength = indexData.averageDocumentLength,
                  !.documentCount = indexData.documentCount,
                  !.vocabulary = indexData.vocabulary]]

\* BM25Index.load: throws when the file is missing or is no JSON text
load(file) ==
    IF file.state = "absent" THEN [ok |-> FALSE, error |-> "Index file not found"]
    ELSE IF file.state = "partial" THEN [ok |-> FALSE, error |-> "SyntaxError"]
    ELSE LET indexData == file.data
             p == indexData.parameters
             o == indexData.tokenizationOptions
             index == NewBM25Index([x \in DOMAIN p \cup DOMAIN o |->
                                        IF x \in DOMAIN o THEN o[x] ELSE p[x]])
         IN  [ok |-> TRUE,
              index |-> [index EXCEPT
                  !.documents = indexData.documents,
                  !.documentMetadata = MapFromEntries(indexData.documentMetadata),
                  !.invertedIndex = MapFromEntries(indexData.invertedIndex),
                  !.documentLengths = indexData.documentLengths,
                  !.averageDocumentLength = indexData.averageDocumentLength,
                  !.documentCount = indexData.documentCount,
                  !.vocabulary = indexData.vocabulary]]

bm25IndexExists(file) == file.state # "absent"

getOrCreateBM25Index(file) ==
    IF bm25IndexExists(file) THEN load(file)
    ELSE [ok |-> TRUE, index |-> NewBM25Index(EmptyMap)]

-----------------------------------------------------------------------------
(* Regular expressions of bm25.ts and hybridSearch.ts, each as the scan the   *)
(* expression performs; positions are 1-based                                 *)

\* the characters . does not match
LineTerminators == Chars("\n\r")

Digits == Chars("0123456789")
WordChars == UpperSet \cup Chars(LowerChars) \cup Digits \cup {"_"}

\* replace(/\/\*[\s\S]*?\*\//g, ''): a comment ends at the first */ after its /*
RECURSIVE removeBlockComments(_)
removeBlockComments(s) ==
    LET open == IndexOfFrom(s, "/*", 1)
        close == IF open = 0 THEN 0 ELSE IndexOfFrom(s, "*/", open + 2)
    IN  IF close = 0 THEN s
        ELSE SubSeq(s, 1, open - 1)
             \o removeBlockComments(SubSeq(s, close + 2, Len(s)))

\* replace(/marker.*/g, ''): from the marker to the end of its line
RECURSIVE removeToEndOfLine(_, _)
removeToEndOfLine(s, marker) ==
    LET start == IndexOfFrom(s, marker, 1)
    IN  IF start = 0 THEN s
        ELSE SubSeq(s, 1, start - 1)
             \o removeToEndOfLine(
                    SubSeq(s, RunEnd(s, start + Len(marker), LineTerminators, FALSE),
                           Len(s)),
                    marker)

\* replace(/\s+/g, ' ')
RECURSIVE collapseWhiteSpace(_)
collapseWhiteSpace(s) ==
    LET wordEnd == RunEnd(s, 1, WhiteSpace, FALSE)
        spaceEnd == RunEnd(s, wordEnd, WhiteSpace, TRUE)
    IN  IF wordEnd > Len(s) THEN s
        ELSE SubSeq(s, 1, wordEnd - 1) \o " "
             \o collapseWhiteSpace(SubSeq(s, spaceEnd, Len(s)))

\* the position of the last character of s that is not white space, 0 when
\* there is none
LastNonSpace(s) == Last({i \in 1..Len(s) : CharAt(s, i) \notin WhiteSpace})

trim(s) == SubSeq(s, RunEnd(s, 1, WhiteSpace, TRUE), LastNonSpace(s))

preprocessCodeForBM25(codeContent) ==
    trim(collapseWhiteSpace(
        removeToEndOfLine(removeToEndOfLine(removeBlockComments(codeContent), "//"),
                          "#")))

(* The first match of /keyword:?\s+([^:]+)/i (colon = TRUE) or of              *)
(* /keyword\s+([^:]+)/i in s, searched from position from: <<capture>>, or    *)
(* <<>> when there is no match. lowered is s in lower case. When a colon or   *)
(* the end follows the white space, \s+ gives its last character back to the  *)
(* capture.                                                                   *)
RECURSIVE matchErrorPattern(_, _, _, _, _)
matchErrorPattern(s, lowered, keyword, colon, from) ==
    LET p == IndexOfFrom(lowered, keyword, from)
        q0 == p + Len(keyword)
        q == IF colon /\ q0 <= Len(s) /\ CharAt(s, q0) = ":" THEN q0 + 1 ELSE q0
        wsEnd == RunEnd(s, q, WhiteSpace, TRUE)
        capEnd == RunEnd(s, wsEnd, {":"}, FALSE)
    IN  IF p = 0 THEN <<>>
        ELSE IF wsEnd > q /\ capEnd > wsEnd THEN <<SubSeq(s, wsEnd, capEnd - 1)>>
        ELSE IF wsEnd > q + 1 THEN <<SubSeq(s, wsEnd - 1, wsEnd - 1)>>
        ELSE matchErrorPattern(s, lowered, keyword, colon, p + 1)

\* the errorPatterns of prepareQueryForSearch, in their order
ErrorPatterns ==
    <<[keyword |-> "error", colon |-> TRUE], [keyword |-> "exception", colon |-> TRUE],
      [keyword |-> "failed", colon |-> TRUE], [keyword |-> "cannot", colon |-> FALSE],
      [keyword |-> "undefined", colon |-> FALSE], [keyword |-> "null", colon |-> FALSE]>>

\* the captures of /at\s+([a-zA-Z0-9_$.]+)\s/g, in the order of the matches
RECURSIVE matchStackFrames(_, _)
matchStackFrames(s, from) ==
    LET p == IndexOfFrom(s, "at", from)
        wsEnd == RunEnd(s, p + 2, WhiteSpace, TRUE)
        idEnd == RunEnd(s, wsEnd, WordChars \cup {"$", "."}, TRUE)
    IN  IF p = 0 THEN <<>>
        ELSE IF /\ wsEnd > p + 2
                /\ idEnd > wsEnd
                /\ idEnd <= Len(s)
                /\ CharAt(s, idEnd) \in WhiteSpace
             THEN <<SubSeq(s, wsEnd, idEnd - 1)>> \o matchStackFrames(s, idEnd + 1)
             ELSE matchStackFrames(s, p + 1)

\* the alternatives of the file name pattern, in the order the pattern tries them
FileNameExtensions ==
    <<"js", "py", "java", "rb", "go", "cpp", "c", "h", "ts", "tsx", "jsx">>

\* the first alternative of FileNameExtensions found in s at position i, ""
\* when there is none
RECURSIVE FirstExtensionAt(_, _, _)
FirstExtensionAt(s, i, n) ==
    IF n > Len(FileNameExtensions) THEN ""
    ELSE LET ext == FileNameExtensions[n]
         IN  IF i + Len(ext) - 1 <= Len(s) /\ SubSeq(s, i, i + Len(ext) - 1) = ext
             THEN ext
             ELSE FirstExtensionAt(s, i, n + 1)

\* the captures of /([a-zA-Z0-9_-]+\.(?:js|py|java|rb|go|cpp|c|h|ts|tsx|jsx))/g
RECURSIVE matchFileNames(_, _)
matchFileNames(s, from) ==
    LET nameChars == WordChars \cup {"-"}
        p == RunEnd(s, from, nameChars, FALSE)
        runEnd == RunEnd(s, p, nameChars, TRUE)
        ext == IF runEnd <= Len(s) /\ CharAt(s, runEnd) = "."
               THEN FirstExtensionAt(s, runEnd + 1, 1) ELSE ""
    IN  IF p > Len(s) THEN <<>>
        ELSE IF ext # ""
             THEN <<SubSeq(s, p, runEnd + Len(ext))>>
                  \o matchFileNames(s, runEnd + Len(ext) + 1)
             ELSE matchFileNames(s, runEnd)

\* the last position in from..to at which s holds a character of set that is
\* followed by the text next, 0 when there is none
LastIndexIn(s, set, next, from, to) ==
    Last({i \in from..to : /\ CharAt(s, i) \in set
                            /\ i + Len(next) <= Len(s)
                            /\ SubSeq(s, i + 1, i + Len(next)) = next})

\* the captures of /([a-zA-Z0-9_]+)\(.*\)/g: .* runs to the last ) of the line
RECURSIVE matchFunctionCalls(_, _)
matchFunctionCalls(s, from) ==
    LET p == RunEnd(s, from, WordChars, FALSE)
        runEnd == RunEnd(s, p, WordChars, TRUE)
        lineEnd == RunEnd(s, runEnd, LineTerminators, FALSE)
        close == IF runEnd <= Len(s) /\ CharAt(s, runEnd) = "("
                 THEN LastIndexIn(s, {")"}, "", runEnd + 1, lineEnd - 1) ELSE 0
    IN  IF p > Len(s) THEN <<>>
        ELSE IF close # 0
             THEN <<SubSeq(s, p, runEnd - 1)>> \o matchFunctionCalls(s, close + 1)
             ELSE matchFunctionCalls(s, runEnd)

\* the captures of /import\s+([a-zA-Z0-9_{}]+)/g
RECURSIVE matchImports(_, _)
matchImports(s, from) ==
    LET p == IndexOfFrom(s, "import", from)
        wsEnd == RunEnd(s, p + 6, WhiteSpace, TRUE)
        capEnd == RunEnd(s, wsEnd, WordChars \cup {"{", "}"}, TRUE)
    IN  IF p = 0 THEN <<>>
        ELSE IF wsEnd > p + 6 /\ capEnd > wsEnd
             THEN <<SubSeq(s, wsEnd, capEnd - 1)>> \o matchImports(s, capEnd)
             ELSE matchImports(s, p + 1)

Quotes == {"'", "\""}

\* the captures of /require\(['"](.*)['"]\)/g: .* runs to the last quote of the
\* line that a ) follows
RECURSIVE matchRequires(_, _)
matchRequires(s, from) ==
    LET p == IndexOfFrom(s, "require(", from)
        q == p + 8
        lineEnd == RunEnd(s, q + 1, LineTerminators, FALSE)
        close == IF q <= Len(s) /\ CharAt(s, q) \in Quotes
                 THEN LastIndexIn(s, Quotes, ")", q + 1, lineEnd - 1) ELSE 0
    IN  IF p = 0 THEN <<>>
        ELSE IF close # 0
             THEN <<SubSeq(s, q + 1, close - 1)>> \o matchRequires(s, close + 2)
             ELSE matchRequires(s, p + 1)

\* enhancedQuery += ' ' + match[1], for every capture that is not empty
RECURSIVE AppendCaptures(_, _)
AppendCaptures(enhancedQuery, captures) ==
    IF captures = <<>> THEN enhancedQuery
    ELSE AppendCaptures(
             IF Len(Head(captures)) > 0
             THEN enhancedQuery \o " " \o Head(captures)
             ELSE enhancedQuery,
             Tail(captures))

\* the captures of the errorPatterns from the n-th on, each pattern matched once
RECURSIVE ErrorCaptures(_, _, _)
ErrorCaptures(rawQuery, lowered, n) ==
    IF n > Len(ErrorPatterns) THEN <<>>
    ELSE matchErrorPattern(rawQuery, lowered, ErrorPatterns[n].keyword,
                           ErrorPatterns[n].colon, 1)
         \o ErrorCaptures(rawQuery, lowered, n + 1)

prepareQueryForSearch(rawQuery) ==
    preprocessCodeForBM25(
        AppendCaptures(rawQuery,
            ErrorCaptures(rawQuery, toLowerCase(rawQuery), 1)
                \o matchStackFrames(rawQuery, 1)
                \o matchFileNames(rawQuery, 1)
                \o matchFunctionCalls(rawQuery, 1)
                \o matchImports(rawQuery, 1)
                \o matchRequires(rawQuery, 1)))

-----------------------------------------------------------------------------
(* vectorStore.ts: the FAISS index wrapper *)

\* The embedding dimension, 768 in the source, scaled down
EMBEDDING_DIMENSION == 3

\* The values of a vector component that are no finite number, and an array
\* item whose typeof is not 'number'; finite components are small integers
NaN == 1000
Infinity == 1001
NotANumber == 1002

isFinite(x) == x \notin {NaN, Infinity, NotANumber}

\* new Array(n).fill(v)
Fill(n, v) == [i \in 1..n |-> v]

\* the first n items of data, with zeros after the last item
PadOrTruncate(data, n) ==
    [i \in 1..n |-> IF i <= Len(data) THEN data[i] ELSE 0]

(* The IndexFlatL2 object of faiss-node is outside the repository. It is a    *)
(* list holding the arrays index.add was given, as given: that every record   *)
(* has the dimension of the index then rests on addToIndex alone.             *)
NewIndexFlatL2(dimension) == [d |-> dimension, vectors |-> <<>>]

createFAISSIndex(options) ==
    LET dimension == IF "dimension" \in DOMAIN options
                     THEN options.dimension ELSE EMBEDDING_DIMENSION
    IN  [index |-> NewIndexFlatL2(dimension),
         dimension |-> dimension,
         size |-> 0,
         idToMetadata |-> EmptyMap]

(* An embedding handed to addToIndex is null, a Float32Array, an Array, an    *)
(* object whose values field is a Float32Array, or something else.            *)
NullEmbedding == [kind |-> "null"]
Float32Array(data) == [kind |-> "Float32Array", data |-> data]
ArrayOf(data) == [kind |-> "Array", data |-> data]
ValuesObject(data) == [kind |-> "values", data |-> data]
OtherEmbedding == [kind |-> "other"]

\* the items of an array embedding that pass typeof item === 'number' && !isNaN(item)
NumericItems(arr) == SelectSeq(arr, LAMBDA item : item # NotANumber /\ item # NaN)

\* the branches of addToIndex on the type of an embedding: the array it builds,
\* or skip when the chunk is passed over
ConvertEmbedding(embedding) ==
    CASE embedding.kind = "Float32Array" ->
            [skip |-> FALSE,
             value |-> IF Len(embedding.data) # EMBEDDING_DIMENSION
                       THEN PadOrTruncate(embedding.data, EMBEDDING_DIMENSION)
                       ELSE embedding.data]
      [] embedding.kind = "Array" ->
            LET numericArray == NumericItems(embedding.data)
            IN  IF Len(numericArray) = 0 THEN [skip |-> TRUE]
                ELSE [skip |-> FALSE,
                      value |-> IF Len(numericArray) # EMBEDDING_DIMENSION
                                THEN PadOrTruncate(numericArray, EMBEDDING_DIMENSION)
                                ELSE numericArray]
      [] embedding.kind = "values" -> [skip |-> FALSE, value |-> embedding.data]
      [] OTHER -> [skip |-> TRUE]

\* the final validation of addToIndex without its test of the length
FinalValidation_AnyLength(processedEmbedding) == TRUE

\* the final validation of addToIndex: a Float32Array of the expected length
FinalValidation(processedEmbedding) ==
    Len(processedEmbedding) = EMBEDDING_DIMENSION

\* an embedding holding a NaN or an infinite value is replaced as a whole
ReplaceInvalidValues(processedEmbedding) ==
    IF \E i \in DOMAIN processedEmbedding : ~isFinite(processedEmbedding[i])
    THEN Fill(EMBEDDING_DIMENSION, 1)
    ELSE processedEmbedding

\* what the first loop of addToIndex makes of one chunk
ProcessChunk(chunk) ==
    IF chunk.embedding.kind = "null" THEN [skip |-> TRUE]
    ELSE LET converted == ConvertEmbedding(chunk.embedding)
         IN  IF converted.skip THEN converted
             ELSE IF ~FinalValidation(converted.value) THEN [skip |-> TRUE]
             ELSE [skip |-> FALSE, value |-> ReplaceInvalidValues(converted.value)]

\* the chunks that are not skipped, each with the array to add (validChunks
\* and embeddings of addToIndex)
RECURSIVE ValidChunks(_)
ValidChunks(chunks) ==
    IF chunks = <<>> THEN <<>>
    ELSE LET processed == ProcessChunk(Head(chunks))
         IN  (IF processed.skip THEN <<>>
              ELSE <<[chunk |-> Head(chunks), embedding |-> processed.value]>>)
             \o ValidChunks(Tail(chunks))

\* const { embedding: _, ...metadata } = chunk
WithoutEmbedding(chunk) == [f \in DOMAIN chunk \ {"embedding"} |-> chunk[f]]

\* addToIndex numbering an accepted chunk by its position among the chunks it
\* was given, skipped ones included
addToIndex_IdsByInputPosition(indexWrapper, chunks) ==
    LET valid == ValidChunks(chunks)
        startId == indexWrapper.size
        accepted == {i \in DOMAIN chunks : ~ProcessChunk(chunks[i]).skip}
    IN  IF Len(valid) = 0 THEN indexWrapper
        ELSE [indexWrapper EXCEPT
                !.index.vectors = @ \o [i \in DOMAIN valid |-> valid[i].embedding],
                !.size = @ + Len(valid),
                !.idToMetadata =
                    [id \in DOMAIN @ \cup {startId + i - 1 : i \in accepted} |->
                        IF id - startId + 1 \in accepted
                        THEN WithoutEmbedding(chunks[id - startId + 1])
                        ELSE @[id]]]

addToIndex(indexWrapper, chunks) ==
    LET valid == ValidChunks(chunks)
        startId == indexWrapper.size
    IN  IF Len(valid) = 0 THEN indexWrapper
        ELSE [indexWrapper EXCEPT
                !.index.vectors = @ \o [i \in DOMAIN valid |-> valid[i].embedding],
                !.size = @ + Len(valid),
                !.idToMetadata =
                    [id \in DOMAIN @ \cup (startId .. startId + Len(valid) - 1) |->
                        IF id \in startId .. startId + Len(valid) - 1
                        THEN WithoutEmbedding(valid[id - startId + 1].chunk)
                        ELSE @[id]]]

\* the squared L2 distance of IndexFlatL2, in units of 0.01
L2Distance(x, y) == SeqSum([i \in DOMAIN y |-> (x[i] - y[i]) * (x[i] - y[i])])

\* ascending on .distance, records of equal distance in the order of their labels
RECURSIVE SortByDistanceAsc(_)
SortByDistanceAsc(s) ==
    IF s = <<>> THEN <<>>
    ELSE LET x == s[Len(s)]
             rest == SortByDistanceAsc(SubSeq(s, 1, Len(s) - 1))
             keep == Cardinality({i \in DOMAIN rest : rest[i].distance <= x.distance})
         IN  SubSeq(rest, 1, keep) \o <<x>> \o SubSeq(rest, keep + 1, Len(rest))

\* index.search(query, k) of IndexFlatL2: the k nearest records, nearest first
IndexFlatL2Search(index, query, k) ==
    LET all == [i \in DOMAIN index.vectors |->
                    [label |-> i - 1, distance |-> L2Distance(query, index.vectors[i])]]
        sorted == SortByDistanceAsc(all)
    IN  SubSeq(sorted, 1, Min(k, Len(sorted)))

\* 1 - distance / 100 without the clamp at zero
DistanceToScore_Unclamped(distance) == ScoreScale - distance

\* Math.max(0, 1 - distance / 100), in fixed point
DistanceToScore(distance) == Max(0, ScoreScale - distance)

searchIndex(indexWrapper, queryEmbedding, k) ==
    LET safeK == Min(k, indexWrapper.size)
    IN  IF safeK = 0 THEN <<>>
        ELSE LET result == IndexFlatL2Search(indexWrapper.index, queryEmbedding, safeK)
                 found == SelectSeq(result,
                              LAMBDA r : r.label \in DOMAIN indexWrapper.idToMetadata)
                 searchResults ==
                     [i \in DOMAIN found |->
                         [id |-> found[i].label,
                          score |-> DistanceToScore(found[i].distance),
                          distance |-> found[i].distance,
                          metadata |-> indexWrapper.idToMetadata[found[i].label]]]
             IN  SortByScoreDesc(searchResults)

\* addToIndex over a store whose index.add throws for the accepted vector at
\* position rejected: the vectors before it are in the store, which the wrapper
\* shares, and the call throws before it updates size and idToMetadata
addToIndexRejected(indexWrapper, chunks, rejected) ==
    LET valid == ValidChunks(chunks)
    IN  [indexWrapper EXCEPT
            !.index.vectors = @ \o [i \in 1..(rejected - 1) |-> valid[i].embedding]]

-----------------------------------------------------------------------------
(* Paths, the project tree and the file walker of rag/index.ts *)

\* the position of the last occurrence of the character c in s, 0 when none
LastIndexOf(s, c, i) == Last({j \in 1..i : CharAt(s, j) = c})

\* path.basename, path.dirname, path.extname and path.join on POSIX paths
basename(filePath) ==
    SubSeq(filePath, LastIndexOf(filePath, "/", Len(filePath)) + 1, Len(filePath))

dirname(filePath) ==
    LET slash == LastIndexOf(filePath, "/", Len(filePath))
    IN  IF slash = 0 THEN "." ELSE IF slash = 1 THEN "/" ELSE SubSeq(filePath, 1, slash - 1)

extname(filePath) ==
    LET base == basename(filePath)
        dot == LastIndexOf(base, ".", Len(base))
    IN  IF dot <= 1 THEN "" ELSE SubSeq(base, dot, Len(base))

join(dir, name) == dir \o "/" \o name

startsWith(s, prefix) ==
    Len(s) >= Len(prefix) /\ SubSeq(s, 1, Len(prefix)) = prefix

\* the codeExtensions of isCodeFile
CodeExtensions ==
    {".js", ".jsx", ".ts", ".tsx", ".py", ".java", ".c", ".cpp", ".cc", ".cxx", ".h",
     ".hpp", ".go", ".rb", ".php", ".cs", ".scala", ".swift", ".rs", ".kt", ".kts",
     ".sh", ".bash", ".sql"}

isCodeFile(filePath) == toLowerCase(extname(filePath)) \in CodeExtensions

isFileSupported(filePath) == isCodeFile(filePath)

\* the excludeDirs default of indexCodebase and the defaultExcludes of findCodeFiles
DefaultExcludeDirs == {"node_modules", ".git", "__pycache__", "venv", ".env"}

WalkerExcludes ==
    {"node_modules", ".git", "__pycache__", "venv", ".env", ".Trash", ".npm", ".cache",
     ".tmp", "tmp", "temp", ".DS_Store", "Thumbs.db", ".vscode", ".idea", "build",
     "dist", "out", "target", ".next", ".nuxt", ".svelte-kit", "coverage",
     ".nyc_output", ".pytest_cache", ".tox", ".eggs", "egg-info"}

(* A directory is the sequence of its entries in the order readdirSync gives  *)
(* them; an entry is a file with its content, a directory with its entries or *)
(* a symbolic link with its target. isDirectory and isFile are what the       *)
(* Dirent of the entry answers: both are false for a symbolic link.           *)
File(name, content) ==
    [name |-> name, isDirectory |-> FALSE, isFile |-> TRUE, content |-> content]
Directory(name, entries) ==
    [name |-> name, isDirectory |-> TRUE, isFile |-> FALSE, entries |-> entries]
Symlink(name, target) ==
    [name |-> name, isDirectory |-> FALSE, isFile |-> FALSE, target |-> target]

\* a walk that takes every entry that is no directory for a file
RECURSIVE walkDir_WithoutFileCheck(_, _, _, _)
walkDir_WithoutFileCheck(dir, entries, allExcludes, projectPath) ==
    IF entries = <<>> THEN <<>>
    ELSE LET entry == Head(entries)
             fullPath == join(dir, entry.name)
             found ==
                 IF entry.isDirectory
                 THEN IF \/ entry.name \in allExcludes
                         \/ startsWith(entry.name, ".") /\ entry.name # ".terminal_helper"
                         \/ ~startsWith(fullPath, projectPath)
                      THEN <<>>
                      ELSE walkDir_WithoutFileCheck(fullPath, entry.entries, allExcludes,
                                                    projectPath)
                 ELSE IF isFileSupported(fullPath) THEN <<fullPath>> ELSE <<>>
         IN  found \o walkDir_WithoutFileCheck(dir, Tail(entries), allExcludes, projectPath)

\* walkDir of findCodeFiles over the entries of dir
RECURSIVE walkDir(_, _, _, _)
walkDir(dir, entries, allExcludes, projectPath) ==
    IF entries = <<>> THEN <<>>
    ELSE LET entry == Head(entries)
             fullPath == join(dir, entry.name)
             found ==
                 IF entry.isDirectory
                 THEN IF \/ entry.name \in allExcludes
                         \/ startsWith(entry.name, ".") /\ entry.name # ".terminal_helper"
                         \/ ~startsWith(fullPath, projectPath)
                      THEN <<>>
                      ELSE walkDir(fullPath, entry.entries, allExcludes, projectPath)
                 ELSE IF entry.isFile /\ isFileSupported(fullPath) THEN <<fullPath>>
                 ELSE <<>>
         IN  found \o walkDir(dir, Tail(entries), allExcludes, projectPath)

findCodeFiles(tree, projectPath, excludeDirs) ==
    walkDir(projectPath, tree, WalkerExcludes \cup excludeDirs, projectPath)

\* the files below dir, whatever their name: the set of <<path, content>>
RECURSIVE FilesBelow(_, _)
FilesBelow(dir, entries) ==
    IF entries = <<>> THEN {}
    ELSE LET entry == Head(entries)
             fullPath == join(dir, entry.name)
         IN  (IF entry.isDirectory THEN FilesBelow(fullPath, entry.entries)
              ELSE IF entry.isFile THEN {<<fullPath, entry.content>>}
              ELSE {})
             \cup FilesBelow(dir, Tail(entries))

-----------------------------------------------------------------------------
(* The chunker. Its code is not among the sources: it is modelled from its    *)
(* description, as windows of ChunkLines lines that overlap by ChunkOverlap.  *)

ChunkLines == 2
ChunkOverlap == 1

\* the lines of a text, split at "\n"
RECURSIVE splitLines(_)
splitLines(content) ==
    LET nl == IndexOfFrom(content, "\n", 1)
    IN  IF nl = 0 THEN <<content>>
        ELSE <<SubSeq(content, 1, nl - 1)>>
                 \o splitLines(SubSeq(content, nl + 1, Len(content)))

RECURSIVE joinLines(_)
joinLines(lines) ==
    IF Len(lines) = 1 THEN lines[1]
    ELSE lines[1] \o "\n" \o joinLines(Tail(lines))

\* /^\s*(import|from|#include|require\s*\(|use\s+)/ on one line
lineHasImport(line) ==
    LET start == RunEnd(line, 1, WhiteSpace, TRUE)
        rest == SubSeq(line, start, Len(line))
        afterRequire == RunEnd(rest, 8, WhiteSpace, TRUE)
    IN  \/ startsWith(rest, "import")
        \/ startsWith(rest, "from")
        \/ startsWith(rest, "#include")
        \/ startsWith(rest, "require") /\ CharAt(rest, afterRequire) = "("
        \/ startsWith(rest, "use") /\ CharAt(rest, 4) \in WhiteSpace

\* the chunks whose first line is startLine or later
RECURSIVE chunksFrom(_, _, _)
chunksFrom(filePath, lines, startLine) ==
    LET endLine == Min(startLine + ChunkLines - 1, Len(lines))
        window == SubSeq(lines, startLine, endLine)
        chunk == [filePath |-> filePath,
                  startLine |-> startLine,
                  endLine |-> endLine,
                  content |-> joinLines(window),
                  metadata |-> [hasImports |->
                                   \E i \in DOMAIN window : lineHasImport(window[i])]]
    IN  IF endLine = Len(lines) THEN <<chunk>>
        ELSE <<chunk>> \o chunksFrom(filePath, lines, startLine + ChunkLines - ChunkOverlap)

chunkCodeFile(filePath, content) ==
    IF trim(content) = "" THEN <<>>
    ELSE chunksFrom(filePath, splitLines(content), 1)

-----------------------------------------------------------------------------
(* embeddings.ts: the embedding pipeline *)

MAX_LENGTH == 512

\* replace(/from/g, to)
RECURSIVE replaceAll(_, _, _)
replaceAll(s, from, to) ==
    LET at == IndexOfFrom(s, from, 1)
    IN  IF at = 0 THEN s
        ELSE SubSeq(s, 1, at - 1) \o to
             \o replaceAll(SubSeq(s, at + Len(from), Len(s)), from, to)

\* the position of the last "\n" of s in from..to, 0 when there is none
LastNewline(s, from, to) == Last({i \in from..to : CharAt(s, i) = "\n"})

\* replace(/\n\s*\n\s*\n/g, '\n\n'): a match starts at a "\n" whose run of
\* white space holds two more "\n", and ends at the last of them
RECURSIVE squeezeBlankLines(_)
squeezeBlankLines(s) ==
    LET nl == IndexOfFrom(s, "\n", 1)
        runEnd == RunEnd(s, nl + 1, WhiteSpace, TRUE)
        last == LastNewline(s, nl + 1, runEnd - 1)
        before == IF last = 0 THEN 0 ELSE LastNewline(s, nl + 1, last - 1)
    IN  IF nl = 0 THEN s
        ELSE IF before = 0
             THEN SubSeq(s, 1, nl) \o squeezeBlankLines(SubSeq(s, nl + 1, Len(s)))
             ELSE SubSeq(s, 1, nl - 1) \o "\n\n"
                  \o squeezeBlankLines(SubSeq(s, last + 1, Len(s)))

preprocessCodeForCodeBERT(code) ==
    trim(squeezeBlankLines(replaceAll(replaceAll(code, "\r\n", "\n"), "\t", "    ")))

(* The process holds the client of the embedding service in embeddingModel   *)
(* and the name of the model in modelType, both null when the process        *)
(* starts: model is "unset" then, "untested" once the client is assigned and *)
(* "ready" once the model type is. The service is outside the repository:    *)
(* its model files are missing, or it cannot be reached, or it is up and     *)
(* answers every text with an embedding.                                     *)
Services == {"missing", "unreachable", "up"}

\* the embedding the service answers for a text: one array of the dimension
\* of the model for each text
ServiceEmbedding(text) ==
    [i \in 1..EMBEDDING_DIMENSION |-> (Len(text) * i) % 7]

\* Other answers of a service that is reached: a status that is not 200, a
\* body without the embedding field, and bodies whose embedding is one item
\* short, one item long, holds a number beyond the doubles (1e999, which
\* JSON.parse reads as Infinity) or holds an item that is no number
FailingAnswers == {"status500", "noEmbedding"}
OddAnswers == {"short", "long", "nonFinite", "nonNumeric"}

\* data.embedding of the body of a 200 answer
AnswerEmbedding(service, text) ==
    LET full == ServiceEmbedding(text)
    IN  CASE service = "short" -> SubSeq(full, 1, EMBEDDING_DIMENSION - 1)
          [] service = "long" -> full \o <<5>>
          [] service = "nonFinite" -> [full EXCEPT ![1] = Infinity]
          [] service = "nonNumeric" -> [full EXCEPT ![EMBEDDING_DIMENSION] = NotANumber]
          [] OTHER -> full

\* new Float32Array(array): every item converted to a number
Float32From(array) ==
    [i \in DOMAIN array |-> IF array[i] = NotANumber THEN NaN ELSE array[i]]

\* a call of the client: the output of the model, or an exception
embeddingModel(service, text) ==
    IF service = "up" \/ service \in OddAnswers
    THEN [ok |-> TRUE,
          output |-> <<ValuesObject(Float32From(AnswerEmbedding(service, text)))>>]
    ELSE [ok |-> FALSE]

\* initializeCodeModel: the client is assigned before the service is tested,
\* the model type after
initializeCodeModel(service, model) ==
    IF model # "unset"
    THEN [ok |-> TRUE, model |-> model,
          modelType |-> IF model = "ready" THEN "codebert" ELSE "null"]
    ELSE IF service = "missing" THEN [ok |-> FALSE, model |-> "unset"]
    ELSE IF embeddingModel(service, "function test() { return true; }").ok
         THEN [ok |-> TRUE, model |-> "ready", modelType |-> "codebert"]
         ELSE [ok |-> FALSE, model |-> "untested"]

\* numericEmbedding of generateEmbedding: padded with 0.1 or cut to the dimension
PadWithFallback(data) ==
    [i \in 1..EMBEDDING_DIMENSION |-> IF i <= Len(data) THEN data[i] ELSE 1]

\* truncatedCode: the first MAX_LENGTH * 4 characters of the processed code
Truncated(processedCode) ==
    IF Len(processedCode) > MAX_LENGTH * 4
    THEN SubSeq(processedCode, 1, MAX_LENGTH * 4)
    ELSE processedCode

\* the array generateEmbedding returns for a call of the client: the fallback
\* array of 0.1 when the call throws
EmbeddingOfOutput(called) ==
    IF ~called.ok THEN Float32Array(Fill(EMBEDDING_DIMENSION, 1))
    ELSE Float32Array(PadWithFallback(called.output[1].data))

generateEmbedding(service, model, codeChunk) ==
    LET init == initializeCodeModel(service, model)
    IN  IF ~init.ok THEN [ok |-> FALSE, model |-> init.model]
        ELSE [ok |-> TRUE, model |-> init.model,
              embedding |-> EmbeddingOfOutput(
                  embeddingModel(service,
                                 Truncated(preprocessCodeForCodeBERT(codeChunk))))]

\* { ...object, ...fields }
Spread(object, fields) ==
    [f \in DOMAIN object \cup DOMAIN fields |->
        IF f \in DOMAIN fields THEN fields[f] ELSE object[f]]

\* a chunk with the embedding generated for it, or with the error
EmbeddedChunk(chunk, generated, modelType) ==
    IF generated.ok
    THEN Spread(chunk, [embedding |-> generated.embedding,
                        modelType |-> modelType,
                        embeddingDim |-> EMBEDDING_DIMENSION])
    ELSE Spread(chunk, [embedding |-> NullEmbedding,
                        error |-> "Failed to generate embedding",
                        modelType |-> modelType])

\* the loop of batchGenerateEmbeddings over the chunks; the client is
\* assigned when the loop starts, so model is what every call leaves
RECURSIVE embedChunks(_, _, _, _)
embedChunks(service, model, modelType, chunks) ==
    IF chunks = <<>> THEN <<>>
    ELSE <<EmbeddedChunk(Head(chunks),
                         generateEmbedding(service, model, Head(chunks).content),
                         modelType)>>
         \o embedChunks(service, model, modelType, Tail(chunks))

batchGenerateEmbeddings(service, model, chunks) ==
    LET init == initializeCodeModel(service, model)
    IN  IF ~init.ok THEN [ok |-> FALSE, model |-> init.model]
        ELSE [ok |-> TRUE, model |-> init.model,
              chunks |-> embedChunks(service, init.model, init.modelType, chunks)]

formatEmbeddingForVectorStore(embedding) ==
    CASE embedding.kind = "values" -> Float32Array(embedding.data)
      [] embedding.kind = "Float32Array" ->
            IF Len(embedding.data) # EMBEDDING_DIMENSION
            THEN Float32Array(PadOrTruncate(embedding.data, EMBEDDING_DIMENSION))
            ELSE embedding
      [] embedding.kind = "Array" ->
            LET flattened == NumericItems(embedding.data)
            IN  IF Len(flattened) = 0
                THEN Float32Array(Fill(EMBEDDING_DIMENSION, 0))
                ELSE Float32Array(PadOrTruncate(flattened, EMBEDDING_DIMENSION))
      [] OTHER -> Float32Array(Fill(EMBEDDING_DIMENSION, 0))

formatEmbeddingsForVectorStore(chunksWithEmbeddings) ==
    [i \in DOMAIN chunksWithEmbeddings |->
        IF chunksWithEmbeddings[i].embedding.kind # "null"
        THEN [chunksWithEmbeddings[i] EXCEPT
                 !.embedding = formatEmbeddingForVectorStore(@)]
        ELSE chunksWithEmbeddings[i]]

\* processFile, from the embeddings of the chunks on
processEmbedded(embedded) ==
    IF ~embedded.ok THEN [ok |-> FALSE, model |-> embedded.model]
    ELSE [ok |-> TRUE, model |-> embedded.model,
          chunks |-> formatEmbeddingsForVectorStore(embedded.chunks)]

\* processFile, from the chunks of the file on
processChunks(service, model, chunks) ==
    IF Len(chunks) = 0 THEN [ok |-> TRUE, model |-> model, chunks |-> <<>>]
    ELSE processEmbedded(batchGenerateEmbeddings(service, model, chunks))

\* processFile, from the content of the file on
processContent(service, model, filePath, content) ==
    IF trim(content) = "" THEN [ok |-> TRUE, model |-> model, chunks |-> <<>>]
    ELSE processChunks(service, model, chunkCodeFile(filePath, content))

\* processFile over the files of the disk, a set of <<path, content>>
processFile(files, service, model, filePath) ==
    IF ~\E f \in files : f[1] = filePath THEN [ok |-> FALSE, model |-> model]
    ELSE IF ~isCodeFile(filePath) THEN [ok |-> TRUE, model |-> model, chunks |-> <<>>]
    ELSE processContent(service, model, filePath,
                        (CHOOSE f \in files : f[1] = filePath)[2])

-----------------------------------------------------------------------------
(* vectorStore.ts: the files of the vector index *)

\* the payload file a write method of faiss-node leaves
FaissFile(index) == [state |-> "faiss", index |-> index]

(* The save approaches of saveIndex, tried in order until the payload file   *)
(* exists: index.writeIndex is the first, so if the module offers another    *)
(* method only, a file that is there already stops the loop unwritten. The   *)
(* metadata file is written after the payload file.                          *)
saveIndex(files, module, indexWrapper) ==
    LET payload ==
            IF module.write = "writeIndex" THEN FaissFile(indexWrapper.index)
            ELSE IF files.faiss.state # "absent" THEN files.faiss
            ELSE IF module.write = "write" THEN FaissFile(indexWrapper.index)
            ELSE files.faiss
        metadataObj == [dimension |-> indexWrapper.dimension,
                        size |-> indexWrapper.size,
                        metadata |-> Entries(indexWrapper.idToMetadata)]
    IN  [files EXCEPT !.faiss = payload, !.metadata = JsonFile(metadataObj)]

indexExists(files) == files.faiss.state # "absent" /\ files.metadata.state # "absent"

\* loadIndex: throws when a file is missing or the metadata is no JSON text;
\* a payload no read method accepts gives a new empty index
loadIndex(files) ==
    IF ~indexExists(files) THEN [ok |-> FALSE, error |-> "Index or metadata file not found"]
    ELSE IF files.metadata.state # "json" THEN [ok |-> FALSE, error |-> "SyntaxError"]
    ELSE LET metadataObj == files.metadata.data
         IN  IF files.faiss.state # "faiss"
             THEN [ok |-> TRUE,
                   index |-> [createFAISSIndex([dimension |-> metadataObj.dimension])
                                 EXCEPT !.size = 0, !.idToMetadata = EmptyMap]]
             ELSE [ok |-> TRUE,
                   index |-> [index |-> files.faiss.index,
                              dimension |-> metadataObj.dimension,
                              size |-> metadataObj.size,
                              idToMetadata |-> MapFromEntries(metadataObj.metadata)]]

getOrCreateIndex(files, options) ==
    IF indexExists(files) THEN loadIndex(files)
    ELSE [ok |-> TRUE, index |-> createFAISSIndex(options)]

-----------------------------------------------------------------------------
(* hybridSearch.ts: the fusion of the two rankings. A weight is a rational;   *)
(* the model covers weights whose sum is positive.                            *)

DEFAULT_TOP_K == 5
DEFAULT_BM25_WEIGHT == [num |-> 3, den |-> 10]
DEFAULT_VECTOR_WEIGHT == [num |-> 7, den |-> 10]

\* a field of an options object, or its default
Option(options, name, default) ==
    IF name \in DOMAIN options THEN options[name] ELSE default

toSearchResultMetadata(metadata) ==
    [filePath |-> metadata.filePath, fileName |-> metadata.fileName,
     startLine |-> metadata.startLine, endLine |-> metadata.endLine,
     fileExt |-> metadata.fileExt, hasImports |-> metadata.hasImports]

\* metadata.field || fallback, of a field that may be missing
vectorToSearchResultMetadata(metadata) ==
    [filePath |-> Option(metadata, "filePath", ""),
     fileName |-> Option(metadata, "fileName", ""),
     startLine |-> Option(metadata, "startLine", 0),
     endLine |-> Option(metadata, "endLine", 0),
     fileExt |-> Option(metadata, "fileExt", ""),
     hasImports |-> Option(metadata, "hasImports", FALSE)]

\* the position of the entry of key id in the merge map, 0 when it has none
EntryOf(combinedScores, id) ==
    IF \E i \in DOMAIN combinedScores : combinedScores[i].id = id
    THEN CHOOSE i \in DOMAIN combinedScores : combinedScores[i].id = id
    ELSE 0

\* one step of a loop of mergeResults: the entry of key id gets the score of
\* its side (field) and the metadata of the result
MergeOne(combinedScores, id, field, score, metadata) ==
    LET at == EntryOf(combinedScores, id)
        withEntry == IF at # 0 THEN combinedScores
                     ELSE Append(combinedScores,
                                 [id |-> id, metadata |-> metadata, bm25Score |-> 0,
                                  vectorScore |-> 0, combinedScore |-> 0])
        pos == IF at # 0 THEN at ELSE Len(withEntry)
    IN  [withEntry EXCEPT ![pos] = [@ EXCEPT ![field] = score, !.metadata = metadata]]

RECURSIVE MergeBM25(_, _)
MergeBM25(combinedScores, bm25Results) ==
    IF bm25Results = <<>> THEN combinedScores
    ELSE LET result == Head(bm25Results)
         IN  MergeBM25(MergeOne(combinedScores, result.id, "bm25Score", result.score,
                                toSearchResultMetadata(result.metadata)),
                       Tail(bm25Results))

\* the key of a vector result is String(id), of its numeric id
RECURSIVE MergeVector(_, _)
MergeVector(combinedScores, vectorResults) ==
    IF vectorResults = <<>> THEN combinedScores
    ELSE LET result == Head(vectorResults)
         IN  MergeVector(MergeOne(combinedScores, ToString(result.id), "vectorScore",
                                  result.score,
                                  vectorToSearchResultMetadata(result.metadata)),
                         Tail(vectorResults))

\* bm25Score * bm25Weight + vectorScore * vectorWeight, in fixed point
CombinedScore(bm25Score, vectorScore, bm25Weight, vectorWeight) ==
    (bm25Score * bm25Weight.num * vectorWeight.den
        + vectorScore * vectorWeight.num * bm25Weight.den)
    \div (bm25Weight.den * vectorWeight.den)

\* descending on .combinedScore, entries of equal score in their order
RECURSIVE SortByCombinedDesc(_)
SortByCombinedDesc(s) ==
    IF s = <<>> THEN <<>>
    ELSE LET x == s[Len(s)]
             rest == SortByCombinedDesc(SubSeq(s, 1, Len(s) - 1))
             keep == Cardinality({i \in DOMAIN rest :
                                     rest[i].combinedScore >= x.combinedScore})
         IN  SubSeq(rest, 1, keep) \o <<x>> \o SubSeq(rest, keep + 1, Len(rest))

mergeResults(bm25Results, vectorResults, bm25Weight, vectorWeight) ==
    LET combinedScores == MergeVector(MergeBM25(<<>>, bm25Results), vectorResults)
        scored == [i \in DOMAIN combinedScores |->
                      [combinedScores[i] EXCEPT !.combinedScore =
                          CombinedScore(combinedScores[i].bm25Score,
                                        combinedScores[i].vectorScore,
                                        bm25Weight, vectorWeight)]]
    IN  SortByCombinedDesc(scored)

\* a weight left as it was supplied
NormalizedWeight_AsSupplied(weight, other) == weight

\* weight / (weight + other), in lowest terms
NormalizedWeight(weight, other) ==
    LET num == weight.num * other.den
        den == weight.num * other.den + other.num * weight.den
        g == Gcd(num, den)
    IN  [num |-> num \div g, den |-> den \div g]

\* hybridSearch, from the embedding of the query on
mergeRankings(queryEmbedding, index, bm25Results, expandedK, k, bm25Weight, vectorWeight) ==
    IF ~queryEmbedding.ok THEN [ok |-> FALSE, model |-> queryEmbedding.model]
    ELSE [ok |-> TRUE, model |-> queryEmbedding.model,
          results |->
              slice(mergeResults(bm25Results,
                                 searchIndex(index, queryEmbedding.embedding.data,
                                             expandedK),
                                 NormalizedWeight(bm25Weight, vectorWeight),
                                 NormalizedWeight(vectorWeight, bm25Weight)),
                    0, k)]

\* hybridSearch: its results, or the exception of the embedding of the query
hybridSearch(service, model, query, index, bm25Index, options) ==
    LET k == Option(options, "k", DEFAULT_TOP_K)
        expandedK == Option(options, "expandedK", k * 3)
        maxAvailable == Max(index.size, bm25Index.documentCount)
    IN  mergeRankings(generateEmbedding(service, model, query), index,
                      search(bm25Index, query, Min(expandedK, maxAvailable)),
                      Min(expandedK, maxAvailable), Min(k, maxAvailable),
                      Option(options, "bm25Weight", DEFAULT_BM25_WEIGHT),
                      Option(options, "vectorWeight", DEFAULT_VECTOR_WEIGHT))

\* descending on .rootCauseScore, results of equal score in their order
RECURSIVE SortByRootCauseDesc(_)
SortByRootCauseDesc(s) ==
    IF s = <<>> THEN <<>>
    ELSE LET x == s[Len(s)]
             rest == SortByRootCauseDesc(SubSeq(s, 1, Len(s) - 1))
             keep == Cardinality({i \in DOMAIN rest :
                                     rest[i].rootCauseScore >= x.rootCauseScore})
         IN  SubSeq(rest, 1, keep) \o <<x>> \o SubSeq(rest, keep + 1, Len(rest))

\* null, where a result is expected
NoResult == [kind |-> "null"]

\* combinedScore, times 1.5 for a file the log mentions, times 1.2 for imports:
\* the exact product, in hundredths of the unit of the scores
RootCauseScore(result, mentionedFiles) ==
    LET mentioned == result.metadata.fileName # ""
                        /\ result.metadata.fileName \in mentionedFiles
    IN  result.combinedScore * (IF mentioned THEN 15 ELSE 10)
                             * (IF result.metadata.hasImports THEN 12 ELSE 10)

identifyRootCauseFile(searchResults, errorLog) ==
    LET mentionedFiles == Range(matchFileNames(errorLog, 1))
        scoredResults ==
            [i \in DOMAIN searchResults |->
                Spread(searchResults[i],
                       [rootCauseScore |->
                           RootCauseScore(searchResults[i], mentionedFiles)])]
    IN  IF Len(searchResults) = 0 THEN NoResult
        ELSE SortByRootCauseDesc(scoredResults)[1]

\* the position of the group of filePath, 0 when it has none
GroupOf(groupedResults, filePath) ==
    IF \E i \in DOMAIN groupedResults : groupedResults[i].filePath = filePath
    THEN CHOOSE i \in DOMAIN groupedResults : groupedResults[i].filePath = filePath
    ELSE 0

\* the loop of groupResultsByFile: a result without a file path is passed over
RECURSIVE GroupResults(_, _)
GroupResults(groupedResults, searchResults) ==
    IF searchResults = <<>> THEN groupedResults
    ELSE LET result == Head(searchResults)
             filePath == result.metadata.filePath
             at == GroupOf(groupedResults, filePath)
             withGroup == IF at # 0 THEN groupedResults
                          ELSE Append(groupedResults,
                                      [filePath |-> filePath,
                                       fileName |-> result.metadata.fileName,
                                       chunks |-> <<>>, maxScore |-> 0,
                                       totalScore |-> 0])
             pos == IF at # 0 THEN at ELSE Len(withGroup)
             next == [withGroup EXCEPT ![pos] =
                         [@ EXCEPT !.chunks = Append(@, result),
                                   !.totalScore = @ + result.combinedScore,
                                   !.maxScore = Max(@, result.combinedScore)]]
         IN  IF filePath = "" THEN GroupResults(groupedResults, Tail(searchResults))
             ELSE GroupResults(next, Tail(searchResults))

\* descending on .maxScore, groups of equal score in their order
RECURSIVE SortByMaxScoreDesc(_)
SortByMaxScoreDesc(s) ==
    IF s = <<>> THEN <<>>
    ELSE LET x == s[Len(s)]
             rest == SortByMaxScoreDesc(SubSeq(s, 1, Len(s) - 1))
             keep == Cardinality({i \in DOMAIN rest : rest[i].maxScore >= x.maxScore})
         IN  SubSeq(rest, 1, keep) \o <<x>> \o SubSeq(rest, keep + 1, Len(rest))

groupResultsByFile(searchResults) ==
    SortByMaxScoreDesc(GroupResults(<<>>, searchResults))

-----------------------------------------------------------------------------
(* rag/index.ts: the coordinator. An operation runs in a process of its own  *)
(* over the files of one project: files is the disk, module the faiss-node   *)
(* module, service the state of the embedding service during the operation.  *)

\* the project of the model, and its files as processFile reads them
ProjectRoot == "/p"
ReadableFiles(files) == FilesBelow(ProjectRoot, files.tree)

initializeRAG(files) ==
    LET loadedVectors == getOrCreateIndex(files, EmptyMap)
        loadedBM25 == getOrCreateBM25Index(files.bm25)
    IN  IF ~loadedVectors.ok \/ ~loadedBM25.ok THEN [ok |-> FALSE]
        ELSE [ok |-> TRUE,
              vectorIndex |-> loadedVectors.index,
              bm25Index |-> loadedBM25.index]

\* the BM25 document made of a chunk of filePath
BM25DocumentOf(filePath, chunk) ==
    [id |-> filePath \o ":" \o ToString(chunk.startLine) \o "-" \o ToString(chunk.endLine),
     content |-> preprocessCodeForBM25(chunk.content),
     metadata |-> [filePath |-> chunk.filePath,
                   fileName |-> basename(chunk.filePath),
                   startLine |-> chunk.startLine,
                   endLine |-> chunk.endLine,
                   fileExt |-> toLowerCase(extname(chunk.filePath)),
                   hasImports |-> "metadata" \in DOMAIN chunk
                                      /\ "hasImports" \in DOMAIN chunk.metadata
                                      /\ chunk.metadata.hasImports]]

\* fileResult.filter(c => c.embedding !== null)
NonNullEmbeddings(chunks) == SelectSeq(chunks, LAMBDA c : c.embedding.kind # "null")

\* chunks.map(chunk => ({ id, content, metadata })) of the chunks of filePath
BM25DocumentsOf(filePath, chunks) ==
    [i \in DOMAIN chunks |-> BM25DocumentOf(filePath, chunks[i])]

\* the loop over a batch ending at the first file whose processing throws:
\* the files after it are passed over
AddFileResult_StopAtFailure(acc, filePath, fileResult) ==
    IF acc.failed # <<>> THEN [acc EXCEPT !.model = fileResult.model]
    ELSE IF ~fileResult.ok
    THEN [acc EXCEPT !.model = fileResult.model, !.failed = Append(@, filePath)]
    ELSE IF Len(fileResult.chunks) > 0
    THEN [model |-> fileResult.model,
          allChunks |-> acc.allChunks \o NonNullEmbeddings(fileResult.chunks),
          bm25Documents |-> acc.bm25Documents
                                \o BM25DocumentsOf(filePath, fileResult.chunks),
          totalFiles |-> acc.totalFiles + 1,
          failed |-> acc.failed]
    ELSE [acc EXCEPT !.model = fileResult.model]

\* the chunks and the documents of one file, added to those of its batch;
\* failed lists the files of the run whose processing threw
AddFileResult(acc, filePath, fileResult) ==
    IF ~fileResult.ok
    THEN [acc EXCEPT !.model = fileResult.model, !.failed = Append(@, filePath)]
    ELSE IF Len(fileResult.chunks) > 0
    THEN [model |-> fileResult.model,
          allChunks |-> acc.allChunks \o NonNullEmbeddings(fileResult.chunks),
          bm25Documents |-> acc.bm25Documents
                                \o BM25DocumentsOf(filePath, fileResult.chunks),
          totalFiles |-> acc.totalFiles + 1,
          failed |-> acc.failed]
    ELSE [acc EXCEPT !.model = fileResult.model]

\* the loop of indexCodebase over the files of one batch: a file whose
\* processing throws is passed over
RECURSIVE processBatch(_, _, _, _)
processBatch(files, service, acc, batch) ==
    IF batch = <<>> THEN acc
    ELSE processBatch(files, service,
                      AddFileResult(acc, Head(batch),
                                    processFile(ReadableFiles(files), service,
                                                acc.model, Head(batch))),
                      Tail(batch))

\* the chunks and the documents of one batch, added to the indices
AddBatchResult(state, done) ==
    [model |-> done.model,
     vectorIndex |-> IF Len(done.allChunks) > 0
                     THEN addToIndex(state.vectorIndex, done.allChunks)
                     ELSE state.vectorIndex,
     bm25Index |-> IF Len(done.bm25Documents) > 0
                   THEN addDocuments(state.bm25Index, done.bm25Documents)
                   ELSE state.bm25Index,
     totalChunks |-> state.totalChunks + Len(done.allChunks),
     totalFiles |-> done.totalFiles,
     failed |-> done.failed]

\* the loop of indexCodebase over the batches of filesToProcess
RECURSIVE processBatches(_, _, _, _, _)
processBatches(files, service, state, filesToProcess, batchSize) ==
    IF filesToProcess = <<>> THEN state
    ELSE processBatches(files, service,
                        AddBatchResult(state,
                            processBatch(files, service,
                                         [model |-> state.model, allChunks |-> <<>>,
                                          bm25Documents |-> <<>>,
                                          totalFiles |-> state.totalFiles,
                                          failed |-> state.failed],
                                         slice(filesToProcess, 0, batchSize))),
                        slice(filesToProcess, batchSize, Len(filesToProcess)),
                        batchSize)

\* the save step of indexCodebase and what it returns; files is the disk
\* before, done the indices after the loop
SaveAndReturn(files, module, done) ==
    [ok |-> TRUE,
     files |-> [saveIndex(files, module, done.vectorIndex)
                   EXCEPT !.bm25 = save(done.bm25Index)],
     model |-> done.model,
     vectorIndex |-> done.vectorIndex,
     bm25Index |-> done.bm25Index,
     fileCount |-> done.totalFiles,
     chunkCount |-> done.totalChunks,
     failed |-> done.failed]

\* indexCodebase, from the indices initializeRAG returns on
indexFiles(files, module, service, model, rag, filesToProcess, batchSize) ==
    IF ~rag.ok THEN [ok |-> FALSE, files |-> files, model |-> model]
    ELSE SaveAndReturn(files, module,
                       processBatches(files, service,
                                      [model |-> model,
                                       vectorIndex |-> rag.vectorIndex,
                                       bm25Index |-> rag.bm25Index,
                                       totalChunks |-> 0, totalFiles |-> 0,
                                       failed |-> <<>>],
                                      filesToProcess, batchSize))

\* indexCodebase: what it returns, the files it leaves and the state of the
\* process; its forceReindex option is read and not used
indexCodebase(files, module, service, model, projectPath, options) ==
    indexFiles(files, module, service, model, initializeRAG(files),
               slice(findCodeFiles(files.tree, projectPath,
                                   Option(options, "excludeDirs", DefaultExcludeDirs)),
                     0, Option(options, "maxFilesToProcess", 1000)),
               Option(options, "batchSize", 20))

\* indexSingleFile, from the chunks processFile returns on: the indices are
\* added to and saved when a chunk has an embedding
indexChunks(files, module, rag, filePath, processed) ==
    IF ~processed.ok THEN [ok |-> FALSE, files |-> files, model |-> processed.model]
    ELSE IF Len(NonNullEmbeddings(processed.chunks)) > 0
    THEN SaveAndReturn(files, module,
                       [model |-> processed.model,
                        vectorIndex |-> addToIndex(rag.vectorIndex,
                                                   NonNullEmbeddings(processed.chunks)),
                        bm25Index |-> addDocuments(rag.bm25Index,
                                          BM25DocumentsOf(filePath, processed.chunks)),
                        totalFiles |-> 1,
                        totalChunks |-> Len(processed.chunks),
                        failed |-> <<>>])
    ELSE [ok |-> TRUE, files |-> files, model |-> processed.model,
          vectorIndex |-> rag.vectorIndex, bm25Index |-> rag.bm25Index,
          fileCount |-> 1, chunkCount |-> Len(processed.chunks), failed |-> <<>>]

\* indexSingleFile, from the indices initializeRAG returns on
indexLoadedFile(files, module, service, model, rag, filePath) ==
    IF ~rag.ok THEN [ok |-> FALSE, files |-> files, model |-> model]
    ELSE indexChunks(files, module, rag, filePath,
                     processFile(ReadableFiles(files), service, model, filePath))

\* indexSingleFile of a file of the project root, whose directory is the
\* project root the indices are loaded from and saved to
indexSingleFile(files, module, service, model, filePath) ==
    IF ~isFileSupported(filePath) THEN [ok |-> FALSE, files |-> files, model |-> model]
    ELSE indexLoadedFile(files, module, service, model, initializeRAG(files), filePath)

\* what retrieveRelevantFiles returns when it gives up
EmptyResult == [results |-> <<>>, groupedResults |-> <<>>, rootCauseFile |-> NoResult]

\* retrieveRelevantFiles, from the results of hybridSearch on; left is the
\* disk the call leaves
ReturnResults(left, found, errorLog, identifyRoot) ==
    IF ~found.ok THEN [ok |-> FALSE, files |-> left]
    ELSE [ok |-> TRUE, files |-> left,
          result |-> [results |-> found.results,
                      groupedResults |-> groupResultsByFile(found.results),
                      rootCauseFile |->
                          IF identifyRoot /\ Len(found.results) > 0
                          THEN identifyRootCauseFile(found.results, errorLog)
                          ELSE NoResult]]

\* retrieveRelevantFiles, from the indices it searches on; model is the
\* state of the process
searchIndices(left, service, model, errorLog, index, bm25Index, options) ==
    ReturnResults(left,
                  hybridSearch(service, model, prepareQueryForSearch(errorLog),
                               index, bm25Index,
                               [bm25Weight |->
                                    Option(options, "bm25Weight", DEFAULT_BM25_WEIGHT),
                                vectorWeight |->
                                    Option(options, "vectorWeight", DEFAULT_VECTOR_WEIGHT),
                                k |-> Min(Option(options, "k", DEFAULT_TOP_K),
                                          Max(index.size, bm25Index.documentCount))]),
                  errorLog, Option(options, "identifyRoot", TRUE))

\* retrieveRelevantFiles, from the return of the indexCodebase it calls on
\* empty indices
afterAutoIndex(service, errorLog, indexResults, options) ==
    IF ~indexResults.ok \/ indexResults.vectorIndex.size = 0
    THEN [ok |-> TRUE, files |-> indexResults.files, result |-> EmptyResult]
    ELSE searchIndices(indexResults.files, service, indexResults.model, errorLog,
                       indexResults.vectorIndex, indexResults.bm25Index, options)

\* retrieveRelevantFiles, from the indices initializeRAG returns on;
\* autoIndexed tells whether the call has started indexCodebase
retrieveLoaded(files, module, service, errorLog, projectRoot, options, rag) ==
    IF ~rag.ok THEN [ok |-> FALSE, files |-> files, autoIndexed |-> FALSE]
    ELSE IF rag.vectorIndex.size = 0 \/ rag.bm25Index.documentCount = 0
    THEN Spread(afterAutoIndex(service, errorLog,
                               indexCodebase(files, module, service, "unset", projectRoot,
                                             [maxFilesToProcess |-> 100, batchSize |-> 10]),
                               options),
                [autoIndexed |-> TRUE])
    ELSE Spread(searchIndices(files, service, "unset", errorLog,
                              rag.vectorIndex, rag.bm25Index, options),
                [autoIndexed |-> FALSE])

\* retrieveRelevantFiles: ok is FALSE when it throws; files is the disk it leaves
retrieveRelevantFiles(files, module, service, errorLog, projectRoot, options) ==
    retrieveLoaded(files, module, service, errorLog, projectRoot, options,
                   initializeRAG(files))

-----------------------------------------------------------------------------
(* Initial values shared by the specifications *)

\* no file in the rag-data directory, over an empty project
NoDisk == [faiss |-> AbsentFile, metadata |-> AbsentFile, bm25 |-> AbsentFile, tree |-> <<>>]
\* a module whose index objects have the writeIndex method
DefaultFaiss == [write |-> "writeIndex"]
NoVectorIndex == [index |-> <<>>, dimension |-> 0, size |-> 0, idToMetadata |-> EmptyMap]
NoSaver == [pc |-> "none"]
NoSess == [pc |-> "none"]

-----------------------------------------------------------------------------
(* Specification of the BM25 index: one index object and its file *)

ChunkMeta(filePath, fileName, startLine, endLine, fileExt, hasImports) ==
    [filePath |-> filePath, fileName |-> fileName, startLine |-> startLine,
     endLine |-> endLine, fileExt |-> fileExt, hasImports |-> hasImports]

\* The documents added: three chunk ids, each with two contents ("of the" holds
\* stopwords only), the first with two metadata
BM25Docs ==
    {[id |-> "/p/a.ts:1-2", content |-> "beta",
      metadata |-> ChunkMeta("/p/a.ts", "a.ts", 1, 2, ".ts", FALSE)],
     [id |-> "/p/a.ts:1-2", content |-> "alpha",
      metadata |-> ChunkMeta("/p/a.ts", "a.ts", 1, 2, ".ts", TRUE)],
     [id |-> "/p/a.ts:2-3", content |-> "alpha",
      metadata |-> ChunkMeta("/p/a.ts", "a.ts", 2, 3, ".ts", FALSE)],
     [id |-> "/p/a.ts:2-3", content |-> "The Tests.run(alpha)",
      metadata |-> ChunkMeta("/p/a.ts", "a.ts", 2, 3, ".ts", FALSE)],
     [id |-> "/p/b.py:1-1", content |-> "beta",
      metadata |-> ChunkMeta("/p/b.py", "b.py", 1, 1, ".py", FALSE)],
     [id |-> "/p/b.py:1-1", content |-> "of the",
      metadata |-> ChunkMeta("/p/b.py", "b.py", 1, 1, ".py", FALSE)]}

BM25Queries == {"alpha beta", "the test", "gamma"}

\* the searches: every query with every k, and a query that names a term
\* twice with the least and the greatest k
BM25Searches ==
    [query : BM25Queries, k : 0..MaxK]
        \cup [query : {"alpha beta alpha"}, k : {1, MaxK}]

BM25Init ==
    /\ bm25 \in {NewBM25Index(EmptyMap), NewBM25Index([stemming |-> FALSE])}
    /\ vectorIndex = NoVectorIndex
    /\ disk = NoDisk
    /\ saver = NoSaver
    /\ sess = NoSess
    /\ faiss = DefaultFaiss
    /\ lastOp = [name |-> "new"]

BM25AddDocument ==
    \E document \in BM25Docs :
        /\ \/ bm25.documentCount < MaxDocs
           \/ document.id \in DOMAIN bm25.documentMetadata
        /\ bm25' = addDocument(bm25, document)
        /\ lastOp' = [name |-> "addDocument", document |-> document,
                      present |-> document.id \in DOMAIN bm25.documentMetadata]
        /\ UNCHANGED <<vectorIndex, disk, faiss, saver, sess>>

\* the batches of addDocuments: two chunks, and a chunk followed by the same
\* chunk id with another content
BM25DocBatches ==
    {<<a, b>> : a \in {d \in BM25Docs : d.content = "beta"},
                b \in {d \in BM25Docs : d.content = "alpha"}}

BM25AddDocuments ==
    \E documents \in BM25DocBatches :
        /\ bm25.documentCount + Len(documents) <= MaxDocs
        /\ bm25' = addDocuments(bm25, documents)
        /\ lastOp' = [name |-> "addDocuments", documents |-> documents]
        /\ UNCHANGED <<vectorIndex, disk, faiss, saver, sess>>

BM25Search ==
    \E s \in BM25Searches :
        /\ lastOp' = [name |-> "search", query |-> s.query, k |-> s.k,
                      results |-> search(bm25, s.query, s.k)]
        /\ UNCHANGED <<bm25, vectorIndex, disk, faiss, saver, sess>>

BM25Save ==
    /\ disk' = [disk EXCEPT !.bm25 = save(bm25)]
    /\ lastOp' = [name |-> "save"]
    /\ UNCHANGED <<bm25, vectorIndex, faiss, saver, sess>>

BM25Load ==
    LET r == load(disk.bm25)
    IN  /\ bm25' = IF r.ok THEN r.index ELSE bm25
        /\ lastOp' = [name |-> "load", ok |-> r.ok]
        /\ UNCHANGED <<vectorIndex, disk, faiss, saver, sess>>

BM25Next ==
    BM25AddDocument \/ BM25AddDocuments \/ BM25Search \/ BM25Save \/ BM25Load

SpecBM25 == BM25Init /\ [][BM25Next]_vars

-----------------------------------------------------------------------------
(* Properties of the BM25 index, checked under SpecBM25 *)

\* the position (0-based) at which a chunk id was inserted
DocIndexOf(idx, id) ==
    (CHOOSE i \in DOMAIN idx.documents : idx.documents[i].id = id) - 1

\* the indexed documents whose tokenized content shares a term with the
\* tokenized query, computed from the contents and not from the posting lists
MatchingDocuments(idx, query) ==
    LET queryTerms == Range(_tokenize(idx.tokenizationOptions, query))
    IN  {idx.documents[i].id : i \in
            {j \in DOMAIN idx.documents :
                Range(_tokenize(idx.tokenizationOptions, idx.documents[j].content))
                    \cap queryTerms # {}}}

\* C6: adding a document whose chunk id is already present leaves the whole
\* index state unchanged, whatever the content or metadata of that document.
C6_AddIsIdempotentOnChunkId ==
    [][(lastOp'.name = "addDocument" /\ lastOp'.present) => bm25' = bm25]_vars

\* C6 witness: a chunk id was added a second time with another content and
\* other metadata than the ones the index holds for it.
C6_Witness ==
    /\ lastOp.name = "addDocument"
    /\ lastOp.present
    /\ bm25.documents[DocIndexOf(bm25, lastOp.document.id) + 1].content
          # lastOp.document.content
    /\ bm25.documentMetadata[lastOp.document.id] # lastOp.document.metadata

\* C7: search(query, k) returns the first min(k, number of scored documents)
\* documents of the ranking by descending score in which documents of equal
\* score stand in insertion order (smaller doc index first), for every query.
C7_TopKTiesByDocIndex ==
    lastOp.name = "search" =>
        LET all == search(bm25, lastOp.query, bm25.documentCount)
            res == lastOp.results
            Before(x, y) ==
                \/ x.score > y.score
                \/ /\ x.score = y.score
                   /\ DocIndexOf(bm25, x.id) < DocIndexOf(bm25, y.id)
        IN  /\ Len(res) = Min(lastOp.k, Len(all))
            /\ \A i, j \in DOMAIN res : i < j => Before(res[i], res[j])
            /\ \A i \in DOMAIN res, j \in DOMAIN all :
                   all[j] \notin Range(res) => Before(res[i], all[j])

\* C8: for k >= N the documents search returns are exactly the indexed
\* documents that share at least one term with the tokenized query, each once.
C8_ReturnsExactlyTheMatchingDocuments ==
    (lastOp.name = "search" /\ lastOp.k >= bm25.documentCount) =>
        /\ {lastOp.results[i].id : i \in DOMAIN lastOp.results}
              = MatchingDocuments(bm25, lastOp.query)
        /\ Len(lastOp.results) = Cardinality(MatchingDocuments(bm25, lastOp.query))

\* C8 witness: a search with k >= N over an index of two documents or more in
\* which two documents match on different query terms and one does not match.
C8_Witness ==
    /\ lastOp.name = "search"
    /\ lastOp.k >= bm25.documentCount
    /\ bm25.documentCount >= 2
    /\ Len(lastOp.results) >= 2
    /\ Len(lastOp.results) < bm25.documentCount

\* C9: load(save(idx)) yields an index whose state equals idx's, so search
\* returns the same results for every query and k.
C9_LoadOfSaveIsIdentity ==
    LET r == load(save(bm25))
    IN  /\ r.ok
        /\ r.index = bm25
        /\ \A query \in BM25Queries, k \in 0..MaxK :
               search(r.index, query, k) = search(bm25, query, k)

\* C9 witness: an index of two documents or more, built without stemming, was
\* saved and loaded back.
C9_Witness ==
    /\ lastOp.name = "load"
    /\ lastOp.ok
    /\ bm25.documentCount >= 2
    /\ ~bm25.tokenizationOptions.stemming
    /\ disk.bm25 = save(bm25)

-----------------------------------------------------------------------------
(* Specification of the vector store: one index wrapper, as the coordinator  *)
(* creates it, and the batches of chunks added to it                         *)

MaxVectors == 2

VecChunk(startLine, embedding) ==
    [filePath |-> "/p/a.ts", startLine |-> startLine, endLine |-> startLine + 1,
     content |-> "alpha", embedding |-> embedding]

\* a component far from those of the queries: a vector of such components is
\* at a squared distance above 100 from every query
FarComponent == 100

\* Float32Array contents: every length up to one more than the dimension,
\* two arrays of the right length holding a value that is not finite, and
\* two arrays far from the queries
Float32Contents ==
    {Fill(n, 2) : n \in 0 .. EMBEDDING_DIMENSION + 1}
        \cup {[Fill(EMBEDDING_DIMENSION, 2) EXCEPT ![1] = NaN],
              [Fill(EMBEDDING_DIMENSION, 3) EXCEPT ![EMBEDDING_DIMENSION] = Infinity]}
        \cup {Fill(EMBEDDING_DIMENSION, FarComponent),
              Fill(EMBEDDING_DIMENSION, FarComponent + 20)}

\* Array contents: the same lengths, and arrays holding an item that is no
\* number, a NaN or an infinite value
ArrayContents ==
    {Fill(n, 2) : n \in 0 .. EMBEDDING_DIMENSION + 1}
        \cup {[Fill(EMBEDDING_DIMENSION, 2) EXCEPT ![1] = NotANumber],
              [Fill(EMBEDDING_DIMENSION + 1, 2) EXCEPT ![1] = NaN],
              [Fill(EMBEDDING_DIMENSION, 2) EXCEPT ![EMBEDDING_DIMENSION] = Infinity]}

VecEmbeddings ==
    {NullEmbedding, OtherEmbedding}
        \cup {Float32Array(data) : data \in Float32Contents}
        \cup {ArrayOf(data) : data \in ArrayContents}
        \cup {ValuesObject(data) : data \in Float32Contents}

VecBatches ==
    {<<>>}
        \cup {<<VecChunk(1, embedding)>> : embedding \in VecEmbeddings}
        \cup {<<VecChunk(1, first), VecChunk(2, second)>> :
                first \in {NullEmbedding,
                           Float32Array(Fill(EMBEDDING_DIMENSION, 2)),
                           Float32Array(Fill(EMBEDDING_DIMENSION + 1, 2))},
                second \in {ValuesObject(Fill(EMBEDDING_DIMENSION - 1, 2)),
                            Float32Array(Fill(EMBEDDING_DIMENSION - 1, 2)),
                            ArrayOf(Fill(EMBEDDING_DIMENSION + 1, 2))}}

VecQueries == {Fill(EMBEDDING_DIMENSION, 1), Fill(EMBEDDING_DIMENSION, 2)}

VecInit ==
    /\ vectorIndex = createFAISSIndex(EmptyMap)
    /\ bm25 = NewBM25Index(EmptyMap)
    /\ disk = NoDisk
    /\ saver = NoSaver
    /\ sess = NoSess
    /\ faiss = DefaultFaiss
    /\ lastOp = [name |-> "new"]

VecAddToIndex ==
    \E chunks \in VecBatches :
        /\ vectorIndex.size + Len(chunks) <= MaxVectors
        /\ vectorIndex' = addToIndex(vectorIndex, chunks)
        /\ lastOp' = [name |-> "addToIndex", chunks |-> chunks,
                      before |-> vectorIndex.size]
        /\ UNCHANGED <<bm25, disk, faiss, saver, sess>>

VecSearchIndex ==
    \E queryEmbedding \in VecQueries, k \in 0..MaxK :
        /\ lastOp' = [name |-> "searchIndex", query |-> queryEmbedding, k |-> k,
                      results |-> searchIndex(vectorIndex, queryEmbedding, k)]
        /\ UNCHANGED <<bm25, vectorIndex, disk, faiss, saver, sess>>

VecNext == VecAddToIndex \/ VecSearchIndex

SpecVec == VecInit /\ [][VecNext]_vars

Accepted(chunks) == SelectSeq(chunks, LAMBDA chunk : ~ProcessChunk(chunk).skip)

DistanceOf(id) == L2Distance(lastOp.query, vectorIndex.index.vectors[id + 1])

C12_TieWitness ==
    /\ lastOp.name = "searchIndex"
    /\ lastOp.k = 1
    /\ vectorIndex.size = 2
    /\ DistanceOf(0) = DistanceOf(1)
    /\ Len(lastOp.results) = 1
    /\ lastOp.results[1].id = 0

-----------------------------------------------------------------------------
(* Specification of the coordinator: the operations of rag/index.ts on one   *)
(* project, each in a process of its own, and the damage of an index file    *)

MaxRecords == 3

\* The project: two code files of one chunk each, a file that is no code and
\* a directory the walker leaves out
ProjectTree ==
    <<File("a.ts", "import x\nalpha(beta)"),
      File("notes.txt", "alpha"),
      Directory("node_modules", <<File("m.js", "beta")>>),
      Directory("src", <<File("b.py", "beta # gamma")>>)>>

WriteMethods == {"writeIndex", "write", "none"}

RagErrorLogs == {"Error: beta at a.ts"}

\* Between two operations the indices are the files of the rag-data
\* directory: bm25 and vectorIndex are the objects no process holds.
RagInit ==
    /\ disk \in {NoDisk, [NoDisk EXCEPT !.tree = ProjectTree]}
    /\ faiss \in {[write |-> w] : w \in WriteMethods}
    /\ bm25 = NewBM25Index(EmptyMap)
    /\ vectorIndex = NoVectorIndex
    /\ saver = NoSaver
    /\ sess = NoSess
    /\ lastOp = [name |-> "new"]

\* the id of the chunk a metadata record describes
ChunkIdOf(metadata) ==
    metadata.filePath \o ":" \o ToString(metadata.startLine)
        \o "-" \o ToString(metadata.endLine)

\* what an indexing operation reports of the indices it returns: the chunk
\* ids of the vector records in the order of their ids, and of the documents
IndexingReport(name, r) ==
    IF r.ok
    THEN [name |-> name, ok |-> TRUE, chunkCount |-> r.chunkCount,
          fileCount |-> r.fileCount, failed |-> r.failed,
          vectorChunks |-> [i \in 1..r.vectorIndex.size |->
                               ChunkIdOf(r.vectorIndex.idToMetadata[i - 1])],
          documents |-> [i \in DOMAIN r.bm25Index.documents |->
                            r.bm25Index.documents[i].id]]
    ELSE [name |-> name, ok |-> FALSE]

RagIndexCodebase ==
    \E service \in Services :
        \E r \in {indexCodebase(disk, faiss, service, "unset", ProjectRoot, EmptyMap)} :
            /\ r.ok => r.vectorIndex.size <= MaxRecords
            /\ disk' = r.files
            /\ lastOp' = Spread(IndexingReport("indexCodebase", r),
                                [service |-> service])
            /\ UNCHANGED <<bm25, vectorIndex, faiss, saver, sess>>

RagIndexSingleFile ==
    \E service \in Services, filePath \in {"/p/a.ts", "/p/notes.txt"} :
        \E r \in {indexSingleFile(disk, faiss, service, "unset", filePath)} :
            /\ r.ok => r.vectorIndex.size <= MaxRecords
            /\ disk' = r.files
            /\ lastOp' = IndexingReport("indexSingleFile", r)
            /\ UNCHANGED <<bm25, vectorIndex, faiss, saver, sess>>

\* the sizes of the two indices initializeRAG returns, zero when it throws
LoadedSizes(rag) ==
    IF rag.ok
    THEN [ok |-> TRUE, vectorSize |-> rag.vectorIndex.size,
          documentCount |-> rag.bm25Index.documentCount]
    ELSE [ok |-> FALSE, vectorSize |-> 0, documentCount |-> 0]

RagRetrieve ==
    \E service \in Services, errorLog \in RagErrorLogs, k \in {1, DEFAULT_TOP_K} :
        \E r \in {retrieveRelevantFiles(disk, faiss, service, errorLog, ProjectRoot,
                                        [k |-> k])},
           before \in {LoadedSizes(initializeRAG(disk))} :
            /\ disk' = r.files
            /\ lastOp' = [name |-> "retrieveRelevantFiles", service |-> service,
                          errorLog |-> errorLog, k |-> k,
                          loaded |-> before.ok,
                          vectorSize |-> before.vectorSize,
                          documentCount |-> before.documentCount,
                          autoIndexed |-> r.autoIndexed,
                          ok |-> r.ok,
                          result |-> IF r.ok THEN r.result ELSE NoResult]
            /\ UNCHANGED <<bm25, vectorIndex, faiss, saver, sess>>

\* the two rankings hybridSearch merges for a query over the indices rag, in
\* a process whose embedding service is up
RankingsOf(rag, query, expandedK) ==
    [bm25Results |-> search(rag.bm25Index, query, expandedK),
     vectorResults |->
         searchIndex(rag.vectorIndex,
                     generateEmbedding("up", "unset", query).embedding.data,
                     expandedK)]

\* an integer weight
Weight(n) == [num |-> n, den |-> 1]

\* The options hybridSearch is called with: the defaults, weights that do
\* not sum to 1, a k below the number of candidates, a negative weight and
\* a k of zero
HybridOptions ==
    {[k |-> DEFAULT_TOP_K, bm25Weight |-> DEFAULT_BM25_WEIGHT,
      vectorWeight |-> DEFAULT_VECTOR_WEIGHT],
     [k |-> DEFAULT_TOP_K, bm25Weight |-> Weight(1), vectorWeight |-> Weight(1)],
     [k |-> 1, bm25Weight |-> Weight(3), vectorWeight |-> Weight(1)],
     [k |-> DEFAULT_TOP_K, bm25Weight |-> Weight(-1), vectorWeight |-> Weight(2)],
     [k |-> 0, bm25Weight |-> DEFAULT_BM25_WEIGHT,
      vectorWeight |-> DEFAULT_VECTOR_WEIGHT]}

\* hybridSearch, called on the indices initializeRAG loads, and the two
\* rankings it merges
RagHybridSearch ==
    \E query \in RagErrorLogs, rag \in {initializeRAG(disk)}, options \in HybridOptions :
        /\ rag.ok
        /\ \E rankings \in {RankingsOf(rag, query,
                                Min(options.k * 3,
                                    Max(rag.vectorIndex.size,
                                        rag.bm25Index.documentCount)))},
              found \in {hybridSearch("up", "unset", query, rag.vectorIndex,
                                      rag.bm25Index, options)} :
               lastOp' = [name |-> "hybridSearch", query |-> query,
                          options |-> options,
                          maxAvailable |-> Max(rag.vectorIndex.size,
                                               rag.bm25Index.documentCount),
                          bm25Results |-> rankings.bm25Results,
                          vectorResults |-> rankings.vectorResults,
                          merged |-> mergeResults(
                              rankings.bm25Results, rankings.vectorResults,
                              NormalizedWeight(DEFAULT_BM25_WEIGHT, DEFAULT_VECTOR_WEIGHT),
                              NormalizedWeight(DEFAULT_VECTOR_WEIGHT, DEFAULT_BM25_WEIGHT)),
                          ok |-> found.ok,
                          results |-> found.results]
        /\ UNCHANGED <<bm25, vectorIndex, disk, faiss, saver, sess>>

\* the environment: one file of the rag-data directory is cut short
RagDamage ==
    \E f \in {"faiss", "metadata", "bm25"} :
        /\ \A g \in {"faiss", "metadata", "bm25"} : disk[g].state # "partial"
        /\ disk[f].state # "absent"
        /\ disk' = [disk EXCEPT ![f] = PartialFile]
        /\ lastOp' = [name |-> "damage", file |-> f]
        /\ UNCHANGED <<bm25, vectorIndex, faiss, saver, sess>>

RagNext ==
    \/ RagIndexCodebase
    \/ RagIndexSingleFile
    \/ RagRetrieve
    \/ RagHybridSearch
    \/ RagDamage

SpecRAG == RagInit /\ [][RagNext]_vars

-----------------------------------------------------------------------------
(* Properties of the coordinator, checked under SpecRAG *)

\* C1: retrieveRelevantFiles never raises: whatever the files of the indices
\* hold and whichever of its steps fails, the call returns a result, and the
\* result is the empty one when the indices could not be loaded or the
\* embedding model is not there.
C1_RetrieveNeverRaises ==
    lastOp.name = "retrieveRelevantFiles" =>
        /\ lastOp.ok
        /\ (~lastOp.loaded \/ lastOp.service = "missing") =>
               lastOp.result = EmptyResult

\* the number of items of a sequence that equal x
Occurrences(seq, x) == Cardinality({i \in DOMAIN seq : seq[i] = x})

\* C2: after an index_codebase or index_single_file call no two vector
\* records and no two BM25 documents have the same chunk identity, and every
\* chunk has as many vector records as BM25 documents.
C2_ChunkIdentityUnique ==
    (lastOp.name \in {"indexCodebase", "indexSingleFile"} /\ lastOp.ok) =>
        /\ \A i, j \in DOMAIN lastOp.vectorChunks :
               lastOp.vectorChunks[i] = lastOp.vectorChunks[j] => i = j
        /\ \A i, j \in DOMAIN lastOp.documents :
               lastOp.documents[i] = lastOp.documents[j] => i = j
        /\ \A id \in Range(lastOp.vectorChunks) \cup Range(lastOp.documents) :
               Occurrences(lastOp.vectorChunks, id) = Occurrences(lastOp.documents, id)

\* C3: a chunk that both the BM25 search and the vector search return has
\* exactly one entry in the merged results of hybridSearch, and the entry
\* carries the score of either side.
C3_MergedByChunkId ==
    lastOp.name = "hybridSearch" =>
        \A b \in Range(lastOp.bm25Results), v \in Range(lastOp.vectorResults) :
            b.id = ChunkIdOf(v.metadata) =>
                LET entries == {i \in DOMAIN lastOp.merged :
                                   ChunkIdOf(lastOp.merged[i].metadata) = b.id}
                IN  /\ Cardinality(entries) = 1
                    /\ \A i \in entries :
                           /\ lastOp.merged[i].bm25Score = b.score
                           /\ lastOp.merged[i].vectorScore = v.score

\* C18: retrieveRelevantFiles starts an indexCodebase run if and only if the
\* vector index and the BM25 index it has loaded are both empty; when
\* exactly one of them is empty it starts none.
C18_AutoIndexOnlyWhenBothEmpty ==
    (lastOp.name = "retrieveRelevantFiles" /\ lastOp.loaded) =>
        (lastOp.autoIndexed <=> (lastOp.vectorSize = 0 /\ lastOp.documentCount = 0))

\* the code files of the project, which an indexCodebase run processes
FilesOfRun == Range(findCodeFiles(disk.tree, ProjectRoot, DefaultExcludeDirs))

\* a chunk of the file is among the chunk ids
IndexedIn(chunkIds, filePath) ==
    \E i \in DOMAIN chunkIds : startsWith(chunkIds[i], filePath \o ":")

\* the chunk ids of the indices a process loads from the files of the disk:
\* of the vector records in the order of their ids, and of the documents
SavedChunkIds ==
    LET rag == initializeRAG(disk)
    IN  IF ~rag.ok THEN [ok |-> FALSE]
        ELSE [ok |-> TRUE,
              vectorChunks |-> [i \in 1..rag.vectorIndex.size |->
                                   ChunkIdOf(rag.vectorIndex.idToMetadata[i - 1])],
              documents |-> [i \in DOMAIN rag.bm25Index.documents |->
                                rag.bm25Index.documents[i].id]]

C20_EmbedderDownAborts ==
    (lastOp.name = "indexCodebase" /\ lastOp.service \in {"missing", "unreachable"}
        /\ FilesOfRun # {}) => ~lastOp.ok

\* the options of a search the configuration rules allow: no weight below
\* zero, not both zero, a positive k
ValidOptions(options) ==
    /\ options.bm25Weight.num >= 0
    /\ options.vectorWeight.num >= 0
    /\ options.bm25Weight.num + options.vectorWeight.num > 0
    /\ options.k > 0

\* the score a side gave the chunk of key id: that of its result of that
\* key, 0 when it returned none
SideScore(results, keys, id) ==
    IF \E i \in DOMAIN results : keys[i] = id
    THEN results[CHOOSE i \in DOMAIN results : keys[i] = id].score
    ELSE 0

\* (wB * bm25Score + wV * vectorScore) / (wB + wV) in fixed point: the
\* combination of the two scores under the supplied weights divided by their sum
WeightedMean(bm25Score, vectorScore, wB, wV) ==
    (bm25Score * wB.num * wV.den + vectorScore * wV.num * wB.den)
        \div (wB.num * wV.den + wV.num * wB.den)

C17_InvalidOptionsRejected ==
    (lastOp.name = "hybridSearch" /\ ~ValidOptions(lastOp.options)) =>
        /\ ~lastOp.ok
        /\ lastOp.results = <<>>

-----------------------------------------------------------------------------
(* Specification of a save, step by step: one process holds the two indices, *)
(* adds to them and saves them. BM25Index.save and saveIndex write their     *)
(* JSON text with fs.writeFileSync(path, text), which opens the target path  *)
(* itself with flag 'w' (the file is cut to length zero), writes the text    *)
(* and closes; saveIndex has written the payload file before. saver.pc is    *)
(* the position of the process inside a save.                                *)

IndexFiles == {"faiss", "metadata", "bm25"}

\* the documents and the chunks the process adds
SaveDocs == {document \in BM25Docs : document.content = "alpha"}
SaveBatches ==
    {<<VecChunk(1, Float32Array(Fill(EMBEDDING_DIMENSION, 2)))>>,
     <<VecChunk(2, ArrayOf(Fill(EMBEDDING_DIMENSION, 1)))>>}

SaveInit ==
    /\ bm25 = NewBM25Index(EmptyMap)
    /\ vectorIndex = createFAISSIndex(EmptyMap)
    /\ disk = NoDisk
    /\ saver = NoSaver
    /\ sess = NoSess
    /\ faiss = DefaultFaiss
    /\ lastOp = [name |-> "new"]

SaveAddDocument ==
    \E document \in SaveDocs :
        /\ saver.pc = "none"
        /\ document.id \notin DOMAIN bm25.documentMetadata
        /\ bm25' = addDocument(bm25, document)
        /\ lastOp' = [name |-> "addDocument"]
        /\ UNCHANGED <<vectorIndex, disk, faiss, saver, sess>>

SaveAddToIndex ==
    \E chunks \in SaveBatches :
        /\ saver.pc = "none"
        /\ vectorIndex.size + Len(chunks) <= MaxVectors
        /\ vectorIndex' = addToIndex(vectorIndex, chunks)
        /\ lastOp' = [name |-> "addToIndex"]
        /\ UNCHANGED <<bm25, disk, faiss, saver, sess>>

\* BM25Index.save, first half: writeFileSync has opened code_bm25.json
SaveBM25Open ==
    /\ saver.pc = "none"
    /\ disk' = [disk EXCEPT !.bm25 = PartialFile]
    /\ saver' = [pc |-> "bm25Open"]
    /\ lastOp' = [name |-> "save", previous |-> disk.bm25]
    /\ UNCHANGED <<bm25, vectorIndex, faiss, sess>>

\* BM25Index.save, second half: the text is written and save returns
SaveBM25Write ==
    /\ saver.pc = "bm25Open"
    /\ disk' = [disk EXCEPT !.bm25 = save(bm25)]
    /\ saver' = [pc |-> "none"]
    /\ lastOp' = [name |-> "save returns"]
    /\ UNCHANGED <<bm25, vectorIndex, faiss, sess>>

\* saveIndex, the payload file: a write method of faiss-node has written it
SaveVectorPayload ==
    /\ saver.pc = "none"
    /\ disk' = [disk EXCEPT !.faiss = saveIndex(disk, faiss, vectorIndex).faiss]
    /\ saver' = [pc |-> "payloadWritten"]
    /\ lastOp' = [name |-> "saveIndex", previous |-> disk.metadata]
    /\ UNCHANGED <<bm25, vectorIndex, faiss, sess>>

\* saveIndex, the metadata file: writeFileSync has opened it
SaveVectorOpen ==
    /\ saver.pc = "payloadWritten"
    /\ disk' = [disk EXCEPT !.metadata = PartialFile]
    /\ saver' = [pc |-> "metadataOpen"]
    /\ UNCHANGED <<bm25, vectorIndex, faiss, sess, lastOp>>

\* saveIndex, the metadata file: the text is written and saveIndex returns
SaveVectorWrite ==
    /\ saver.pc = "metadataOpen"
    /\ disk' = [disk EXCEPT !.metadata = saveIndex(disk, faiss, vectorIndex).metadata]
    /\ saver' = [pc |-> "none"]
    /\ lastOp' = [name |-> "saveIndex returns"]
    /\ UNCHANGED <<bm25, vectorIndex, faiss, sess>>

\* the save ends midway: the write fails (the process goes on with the
\* indices it holds) or the process is killed (another one starts with new
\* indices); the files stay as they are
SaveInterrupted ==
    \E killed \in BOOLEAN :
        /\ saver.pc # "none"
        /\ saver' = [pc |-> "none"]
        /\ bm25' = IF killed THEN NewBM25Index(EmptyMap) ELSE bm25
        /\ vectorIndex' = IF killed THEN createFAISSIndex(EmptyMap) ELSE vectorIndex
        /\ lastOp' = [name |-> "interrupted", at |-> saver.pc, killed |-> killed]
        /\ UNCHANGED <<disk, faiss, sess>>

SaveNext ==
    \/ SaveAddDocument
    \/ SaveAddToIndex
    \/ SaveBM25Open
    \/ SaveBM25Write
    \/ SaveVectorPayload
    \/ SaveVectorOpen
    \/ SaveVectorWrite
    \/ SaveInterrupted

SpecSave == SaveInit /\ [][SaveNext]_vars

\* C4: at every point of a save, whether it completes, fails or the process
\* is killed midway, no file of the indices is a partial one: the file at
\* the target path is absent (nothing was saved before) or a complete
\* snapshot.
C4_SaveIsAtomic ==
    \A f \in IndexFiles : disk[f].state \in {"absent", "json", "faiss"}

-----------------------------------------------------------------------------
(* Specification of a reader beside a writer: two processes on one project.  *)
(* The writer runs indexCodebase or indexSingleFile, whose save step is      *)
(* saveIndex followed by BM25Index.save; the reader runs initializeRAG,      *)
(* which loads the vector index and then the BM25 index. No lock is taken    *)
(* by either, so the steps of the two interleave. The saves are numbered:    *)
(* saver.saves counts the saves begun, saver.vectorSave and saver.bm25Save   *)
(* are the saves that wrote the files now on disk (0: none), and sess keeps  *)
(* the numbers of the files the reader loaded.                               *)

MaxSaves == 2

ConcServices == {"up", "unreachable"}

ConcInit ==
    /\ disk = [NoDisk EXCEPT !.tree = ProjectTree]
    /\ faiss = DefaultFaiss
    /\ bm25 = NewBM25Index(EmptyMap)
    /\ vectorIndex = NoVectorIndex
    /\ saver = [pc |-> "none", saves |-> 0, vectorSave |-> 0, bm25Save |-> 0]
    /\ sess = NoSess
    /\ lastOp = [name |-> "new"]

\* the writer, up to the return of saveIndex: files is the disk the whole
\* operation leaves, of which the files of the vector index are written
ConcSaveIndex(name, files) ==
    /\ saver.pc = "none"
    /\ saver.saves < MaxSaves
    /\ disk' = [disk EXCEPT !.faiss = files.faiss, !.metadata = files.metadata]
    /\ saver' = [pc |-> "vectorSaved", saves |-> saver.saves + 1,
                 vectorSave |-> saver.saves + 1, bm25Save |-> saver.bm25Save,
                 bm25File |-> files.bm25]
    /\ lastOp' = [name |-> name]
    /\ UNCHANGED <<bm25, vectorIndex, faiss, sess>>

ConcIndexCodebase ==
    \E service \in ConcServices :
        \E r \in {indexCodebase(disk, faiss, service, "unset", ProjectRoot, EmptyMap)} :
            /\ r.ok
            /\ r.vectorIndex.size <= MaxRecords
            /\ ConcSaveIndex("indexCodebase", r.files)

ConcIndexSingleFile ==
    \E service \in ConcServices :
        \E r \in {indexSingleFile(disk, faiss, service, "unset", "/p/a.ts")} :
            /\ r.ok
            /\ r.chunkCount > 0
            /\ r.vectorIndex.size <= MaxRecords
            /\ ConcSaveIndex("indexSingleFile", r.files)

\* the writer, BM25Index.save and the return of the operation
ConcSaveBM25 ==
    /\ saver.pc = "vectorSaved"
    /\ disk' = [disk EXCEPT !.bm25 = saver.bm25File]
    /\ saver' = [pc |-> "none", saves |-> saver.saves,
                 vectorSave |-> saver.vectorSave, bm25Save |-> saver.saves]
    /\ lastOp' = [name |-> "save"]
    /\ UNCHANGED <<bm25, vectorIndex, faiss, sess>>

\* the reader, initializeRAG up to the return of getOrCreateIndex
ConcLoadVectors ==
    \E loaded \in {getOrCreateIndex(disk, EmptyMap)} :
        /\ sess.pc \in {"none", "loaded"}
        /\ loaded.ok
        /\ sess' = [pc |-> "vectorsLoaded", vectorSave |-> saver.vectorSave,
                    vectorChunks |-> [i \in 1..loaded.index.size |->
                                         ChunkIdOf(loaded.index.idToMetadata[i - 1])]]
        /\ lastOp' = [name |-> "getOrCreateIndex"]
        /\ UNCHANGED <<bm25, vectorIndex, disk, faiss, saver>>

\* the reader, getOrCreateBM25Index and the return of initializeRAG
ConcLoadBM25 ==
    \E loaded \in {getOrCreateBM25Index(disk.bm25)} :
        /\ sess.pc = "vectorsLoaded"
        /\ loaded.ok
        /\ sess' = [pc |-> "loaded", vectorSave |-> sess.vectorSave,
                    vectorChunks |-> sess.vectorChunks,
                    bm25Save |-> saver.bm25Save,
                    documents |-> [i \in DOMAIN loaded.index.documents |->
                                      loaded.index.documents[i].id]]
        /\ lastOp' = [name |-> "initializeRAG"]
        /\ UNCHANGED <<bm25, vectorIndex, disk, faiss, saver>>

ConcNext ==
    \/ ConcIndexCodebase
    \/ ConcIndexSingleFile
    \/ ConcSaveBM25
    \/ ConcLoadVectors
    \/ ConcLoadBM25

SpecConc == ConcInit /\ [][ConcNext]_vars

\* C5: the two indices initializeRAG returns are of one save: the vector
\* index it loaded and the BM25 index it loaded were written by the same
\* save (or both are the new indices of a project nothing was saved for),
\* however the load interleaves with the save step of a writer.
C5_ReaderSeesOneSave ==
    sess.pc = "loaded" => sess.vectorSave = sess.bm25Save

-----------------------------------------------------------------------------
(* Specification of the vector store and its files: a process holds an index *)
(* wrapper, adds to it, saves it with saveIndex and a later process loads it *)
(* with getOrCreateIndex. What a write of the payload file does is decided   *)
(* at each save (the methods the index object offers, the state of the disk):*)
(* faiss is the module as it acts in that save, "none" standing for a save   *)
(* none of whose approaches writes the file. saver.lastSave tells what the   *)
(* last save did with the payload file: it wrote it, it kept the file that   *)
(* was there, or it could not write it.                                      *)

StoreBatches ==
    {<<VecChunk(startLine, Float32Array(Fill(EMBEDDING_DIMENSION, 2)))>> :
        startLine \in 1..2}

StoreInit ==
    /\ vectorIndex = createFAISSIndex(EmptyMap)
    /\ bm25 = NewBM25Index(EmptyMap)
    /\ disk = NoDisk
    /\ saver = [pc |-> "none", lastSave |-> "none"]
    /\ sess = NoSess
    /\ faiss = DefaultFaiss
    /\ lastOp = [name |-> "new"]

StoreAddToIndex ==
    \E chunks \in StoreBatches :
        /\ vectorIndex.size + Len(chunks) <= MaxVectors
        /\ vectorIndex' = addToIndex(vectorIndex, chunks)
        /\ lastOp' = [name |-> "addToIndex"]
        /\ UNCHANGED <<bm25, disk, faiss, saver, sess>>

\* what a saveIndex does with the payload file: no approach of a module
\* "none" writes it; the write method of a module "write" is the second
\* approach, not reached when the file is there after the first
PayloadOutcome(files, module) ==
    IF module.write = "none" THEN "failed"
    ELSE IF module.write = "write" /\ files.faiss.state # "absent" THEN "kept"
    ELSE "written"

\* the warning of saveIndex: no approach has set saved and the file is not there
SaveWarns(files, module) ==
    PayloadOutcome(files, module) # "written" /\ files.faiss.state = "absent"

StoreSaveIndex ==
    \E module \in {[write |-> w] : w \in WriteMethods} :
        /\ faiss' = module
        /\ disk' = saveIndex(disk, module, vectorIndex)
        /\ saver' = [saver EXCEPT !.lastSave = PayloadOutcome(disk, module)]
        /\ lastOp' = [name |-> "saveIndex", before |-> vectorIndex,
                      warned |-> SaveWarns(disk, module)]
        /\ UNCHANGED <<bm25, vectorIndex, sess>>

\* a later process loads the index of the directory
StoreGetOrCreateIndex ==
    \E r \in {getOrCreateIndex(disk, EmptyMap)} :
        /\ r.ok
        /\ vectorIndex' = r.index
        /\ lastOp' = [name |-> "getOrCreateIndex", afterSave |-> saver.lastSave]
        /\ UNCHANGED <<bm25, disk, faiss, saver, sess>>

StoreNext == StoreAddToIndex \/ StoreSaveIndex \/ StoreGetOrCreateIndex

SpecStore == StoreInit /\ [][StoreNext]_vars

-----------------------------------------------------------------------------
(* Specification of the embedder: one process and its calls of               *)
(* generateEmbedding and initializeCodeModel. sess.model is the state of the *)
(* client the process holds; what the service does is chosen at each call.   *)

EmbedServices == Services \cup FailingAnswers \cup OddAnswers

\* the services whose call of the client throws
FailedServices == {"missing", "unreachable"} \cup FailingAnswers

EmbedTexts == {"a", "ab", "a\tb", "alpha(beta)", "x = 1\n\n\n\ny = 2"}

EmbedInit ==
    /\ sess = [pc |-> "none", model |-> "unset"]
    /\ bm25 = NewBM25Index(EmptyMap)
    /\ vectorIndex = NoVectorIndex
    /\ disk = NoDisk
    /\ saver = NoSaver
    /\ faiss = DefaultFaiss
    /\ lastOp = [name |-> "new"]

EmbedInitializeCodeModel ==
    \E service \in EmbedServices :
        \E init \in {initializeCodeModel(service, sess.model)} :
            /\ sess' = [sess EXCEPT !.model = init.model]
            /\ lastOp' = [name |-> "initializeCodeModel", service |-> service,
                          ok |-> init.ok]
            /\ UNCHANGED <<bm25, vectorIndex, disk, faiss, saver>>

EmbedGenerateEmbedding ==
    \E service \in EmbedServices, codeChunk \in EmbedTexts :
        \E r \in {generateEmbedding(service, sess.model, codeChunk)} :
            /\ sess' = [sess EXCEPT !.model = r.model]
            /\ lastOp' = [name |-> "generateEmbedding", service |-> service,
                          codeChunk |-> codeChunk, model |-> sess.model,
                          ok |-> r.ok,
                          embedding |-> IF r.ok THEN r.embedding ELSE NullEmbedding]
            /\ UNCHANGED <<bm25, vectorIndex, disk, faiss, saver>>

EmbedNext == EmbedInitializeCodeModel \/ EmbedGenerateEmbedding

SpecEmbed == EmbedInit /\ [][EmbedNext]_vars

-----------------------------------------------------------------------------
(* Specification of the functions around a search: prepareQueryForSearch on *)
(* raw queries, identifyRootCauseFile and groupResultsByFile on lists of     *)
(* results as mergeResults makes them and on error logs.                     *)

RankResult(filePath, fileName, startLine, hasImports, combinedScore) ==
    [id |-> filePath \o ":" \o ToString(startLine) \o "-" \o ToString(startLine + 1),
     metadata |-> ChunkMeta(filePath, fileName, startLine, startLine + 1,
                            extname(fileName), hasImports),
     bm25Score |-> combinedScore, vectorScore |-> combinedScore,
     combinedScore |-> combinedScore]

\* the results offered: two chunks of b.py, a chunk of a .tsx file, one of a
\* .ts file of the same name, and a vector result whose metadata names no file
RankResults ==
    {RankResult("/p/b.py", "b.py", 1, FALSE, 5000),
     RankResult("/p/b.py", "b.py", 9, TRUE, 3000),
     RankResult("/p/App.tsx", "App.tsx", 1, FALSE, 4000),
     RankResult("/p/App.ts", "App.ts", 1, TRUE, 2500),
     [id |-> "0", metadata |-> vectorToSearchResultMetadata(EmptyMap),
      bm25Score |-> 0, vectorScore |-> 6000, combinedScore |-> 4200]}

MaxResults == 3

\* the lists of at most MaxResults different results
RankLists ==
    {list \in UNION {[1..n -> RankResults] : n \in 0..MaxResults} :
        \A i, j \in DOMAIN list : i # j => list[i] # list[j]}

RankErrorLogs ==
    {"", "TypeError: x is undefined\n    at render (src/App.tsx:10:3)",
     "Traceback: File b.py line 3"}

RankInit ==
    /\ bm25 = NewBM25Index(EmptyMap)
    /\ vectorIndex = NoVectorIndex
    /\ disk = NoDisk
    /\ saver = NoSaver
    /\ sess = NoSess
    /\ faiss = DefaultFaiss
    /\ lastOp = [name |-> "new"]

RankIdentifyRootCauseFile ==
    \E searchResults \in RankLists, errorLog \in RankErrorLogs :
        /\ lastOp' = [name |-> "identifyRootCauseFile",
                      searchResults |-> searchResults, errorLog |-> errorLog,
                      result |-> identifyRootCauseFile(searchResults, errorLog)]
        /\ UNCHANGED <<bm25, vectorIndex, disk, faiss, saver, sess>>

RankGroupResultsByFile ==
    \E searchResults \in RankLists :
        /\ lastOp' = [name |-> "groupResultsByFile", searchResults |-> searchResults,
                      grouped |-> groupResultsByFile(searchResults)]
        /\ UNCHANGED <<bm25, vectorIndex, disk, faiss, saver, sess>>

\* the raw queries: error logs with a stack frame, with a URL, with a '#',
\* with a require call, and the empty log
RankRawQueries ==
    {"", "TypeError: x is undefined\n    at render (src/App.tsx:10:3)",
     "Error: fetch failed for http://api.io/users.js",
     "Cannot import foo # see b.py",
     "require('./a.js') failed: load(b.py)\n"}

RankPrepareQueryForSearch ==
    \E rawQuery \in RankRawQueries :
        /\ lastOp' = [name |-> "prepareQueryForSearch", rawQuery |-> rawQuery,
                      query |-> prepareQueryForSearch(rawQuery)]
        /\ UNCHANGED <<bm25, vectorIndex, disk, faiss, saver, sess>>

RankNext ==
    RankIdentifyRootCauseFile \/ RankGroupResultsByFile \/ RankPrepareQueryForSearch

SpecRank == RankInit /\ [][RankNext]_vars

\* the file names a text holds: the stretches of the text between characters
\* that belong to no name, made of a name, a dot and an extension of the list
FileNamesIn(text) ==
    LET nameChars == WordChars \cup {"-"}
        Outside(i) == i < 1 \/ i > Len(text) \/ CharAt(text, i) \notin nameChars \cup {"."}
    IN  {SubSeq(text, i, j) : <<i, j>> \in
            {p \in (1..Len(text)) \X (1..Len(text)) :
                /\ p[1] < p[2]
                /\ Outside(p[1] - 1)
                /\ Outside(p[2] + 1)
                /\ \E d \in (p[1] + 1)..(p[2] - 1) :
                      /\ CharAt(text, d) = "."
                      /\ \A c \in p[1]..(d - 1) : CharAt(text, c) \in nameChars
                      /\ SubSeq(text, d + 1, p[2]) \in Range(FileNameExtensions)}}

\* C21: identifyRootCauseFile returns nothing exactly when the list of results
\* is empty; otherwise it returns one of the results of the list, and no result
\* of the list has a greater root cause score, the score being combinedScore
\* times 1.5 when the file name of the result is one of the file names in the
\* error log, times 1.2 when the chunk has imports.
C21_ReturnsArgmaxOfRootCauseScore ==
    lastOp.name = "identifyRootCauseFile" =>
        LET results == lastOp.searchResults
            named == FileNamesIn(lastOp.errorLog)
            RcScore(r) == r.combinedScore
                            * (IF r.metadata.fileName \in named THEN 15 ELSE 10)
                            * (IF r.metadata.hasImports THEN 12 ELSE 10)
        IN  /\ (lastOp.result = NoResult) <=> (results = <<>>)
            /\ results # <<>> =>
                   \E i \in DOMAIN results :
                       /\ \A field \in DOMAIN results[i] :
                              lastOp.result[field] = results[i][field]
                       /\ \A j \in DOMAIN results : RcScore(results[j]) <= RcScore(results[i])

-----------------------------------------------------------------------------
(* Specification of the file walker: findCodeFiles over project trees that   *)
(* hold code files and other files, excluded and hidden directories, the     *)
(* data directory of the tool, and symbolic links that lead out of the       *)
(* project, to the directory /p2 beside the project /p.                      *)

\* the entries a project directory is made of, in the order of the directory
WalkEntries ==
    <<File("B.PY", ""), File("README.md", ""),
      Directory(".git", <<File("g.js", "")>>),
      Directory(".terminal_helper", <<File("t.js", "")>>),
      Directory("lib", <<File("l.go", ""), Symlink("out.ts", "/p2/out.ts")>>),
      Symlink("p2", "/p2"),
      Directory("src", <<File("b.py", ""),
                         Directory(".hidden", <<File("h.js", "")>>),
                         Directory("node_modules", <<File("m.js", "")>>),
                         Directory("x.ts", <<File("notes.txt", "")>>)>>),
      Symlink("secret.ts", "/p2/secret.ts")>>

\* the entries of pool at the positions of chosen, in their order
Chosen(pool, chosen) ==
    LET upTo[i \in 0..Len(pool)] ==
            IF i = 0 THEN <<>>
            ELSE IF i \in chosen THEN Append(upTo[i - 1], pool[i]) ELSE upTo[i - 1]
    IN  upTo[Len(pool)]

WalkTrees == {Chosen(WalkEntries, chosen) : chosen \in SUBSET DOMAIN WalkEntries}

\* the exclude lists of the callers
WalkExcludeLists == {DefaultExcludeDirs, {}, {"lib"}, {"src", "x.ts"}}

WalkInit ==
    /\ disk \in {[NoDisk EXCEPT !.tree = tree] : tree \in WalkTrees}
    /\ bm25 = NewBM25Index(EmptyMap)
    /\ vectorIndex = NoVectorIndex
    /\ saver = NoSaver
    /\ sess = NoSess
    /\ faiss = DefaultFaiss
    /\ lastOp = [name |-> "new"]

WalkFindCodeFiles ==
    \E excludeDirs \in WalkExcludeLists :
        /\ lastOp' = [name |-> "findCodeFiles", excludeDirs |-> excludeDirs,
                      codeFiles |-> findCodeFiles(disk.tree, ProjectRoot, excludeDirs)]
        /\ UNCHANGED <<bm25, vectorIndex, disk, faiss, saver, sess>>

WalkNext == WalkFindCodeFiles

SpecWalk == WalkInit /\ [][WalkNext]_vars

\* the names between the slashes of a path, from position i on
RECURSIVE PathParts(_, _)
PathParts(filePath, i) ==
    LET end == RunEnd(filePath, i, {"/"}, FALSE)
    IN  IF i > Len(filePath) THEN <<>>
        ELSE <<SubSeq(filePath, i, end - 1)>> \o PathParts(filePath, end + 1)

\* the entry the names lead to from the entries of a directory, passing through
\* directories only and through no symbolic link; <<>> when there is none
RECURSIVE EntryAt(_, _)
EntryAt(entries, parts) ==
    LET named == {i \in DOMAIN entries : entries[i].name = Head(parts)}
        entry == entries[CHOOSE i \in named : TRUE]
    IN  IF parts = <<>> \/ named = {} THEN <<>>
        ELSE IF Len(parts) = 1 THEN <<entry>>
        ELSE IF entry.isDirectory THEN EntryAt(entry.entries, Tail(parts))
        ELSE <<>>

\* C23: every path findCodeFiles returns lies below the project root and leads,
\* through directories of the project and through no symbolic link, to a
\* regular file whose extension is one of the code extensions; no directory on
\* the way is in the exclude set (the defaults united with the list of the
\* caller) or hidden, .terminal_helper excepted.
C23_WalkerStaysInsideTheProject ==
    lastOp.name = "findCodeFiles" =>
        \A n \in DOMAIN lastOp.codeFiles :
            LET filePath == lastOp.codeFiles[n]
                parts == PathParts(filePath, Len(ProjectRoot) + 2)
                found == EntryAt(disk.tree, parts)
                dirs == {parts[i] : i \in 1..(Len(parts) - 1)}
            IN  /\ startsWith(filePath, ProjectRoot \o "/")
                /\ ".." \notin Range(parts)
                /\ found # <<>>
                /\ found[1].isFile
                /\ toLowerCase(extname(filePath)) \in CodeExtensions
                /\ dirs \cap (WalkerExcludes \cup lastOp.excludeDirs) = {}
                /\ \A d \in dirs : startsWith(d, ".") => d = ".terminal_helper"

\* C23 witness: a walk over a project that holds symbolic links out of the
\* project at two levels, a hidden and an excluded directory, a directory the
\* caller excludes and the data directory, and that returned files of the
\* root, of the data directory and of a directory below the root.
C23_Witness ==
    /\ lastOp.name = "findCodeFiles"
    /\ disk.tree = WalkEntries
    /\ lastOp.excludeDirs = {"lib"}
    /\ lastOp.codeFiles = <<"/p/B.PY", "/p/.terminal_helper/t.js", "/p/src/b.py">>

-----------------------------------------------------------------------------
(* Properties of addToIndex on values that are not finite, under SpecVec *)

\* C24: addToIndex replaces the values that are not finite one by one: when a
\* chunk whose embedding has EMBEDDING_DIMENSION components, some of them NaN
\* or infinite, is added, the vector stored for it holds 0.1 at the positions
\* of those components and the value of the embedding at every other position.
C24_NonFiniteReplacedComponentWise ==
    (/\ lastOp.name = "addToIndex"
     /\ Len(lastOp.chunks) = 1
     /\ lastOp.chunks[1].embedding.kind \in {"Float32Array", "Array", "values"}
     /\ Len(lastOp.chunks[1].embedding.data) = EMBEDDING_DIMENSION
     /\ \A i \in 1..EMBEDDING_DIMENSION :
            lastOp.chunks[1].embedding.data[i] # NotANumber
     /\ \E i \in 1..EMBEDDING_DIMENSION :
            ~isFinite(lastOp.chunks[1].embedding.data[i])) =>
        LET given == lastOp.chunks[1].embedding.data
            stored == vectorIndex.index.vectors
        IN  /\ vectorIndex.size = lastOp.before + 1
            /\ Len(stored) = vectorIndex.size
            /\ stored[Len(stored)] =
                   [i \in 1..EMBEDDING_DIMENSION |->
                       IF isFinite(given[i]) THEN given[i] ELSE 1]

-----------------------------------------------------------------------------
(* Properties of the terms of a query, checked under SpecBM25 *)

\* the words of a list without the words that stand earlier in the list
FirstOccurrences(words) ==
    LET first == {i \in DOMAIN words : \A j \in 1..(i - 1) : words[j] # words[i]}
        upTo[i \in 0..Len(words)] ==
            IF i = 0 THEN <<>>
            ELSE IF i \in first THEN Append(upTo[i - 1], words[i]) ELSE upTo[i - 1]
    IN  upTo[Len(words)]

\* the words of a list with a space between them
RECURSIVE JoinWords(_)
JoinWords(words) ==
    IF words = <<>> THEN ""
    ELSE IF Len(words) = 1 THEN words[1]
    ELSE words[1] \o " " \o JoinWords(Tail(words))

\* C25: search scores each term of the query once: a query that repeats a
\* term gives every document the score, and the search the ranking, of the
\* query that names each of its terms a single time.
C25_RepeatedTermScoredOnce ==
    lastOp.name = "search" =>
        lastOp.results =
            search(bm25, JoinWords(FirstOccurrences(splitWords(lastOp.query, 1))),
                   lastOp.k)

-----------------------------------------------------------------------------
(* Specification of the tokenizer: calls of _tokenize under every setting of *)
(* the tokenization options, and calls of _stem on single tokens.            *)

TokTexts ==
    {"needed", "being tested", "The Tests.run(alpha)", "testings", "pass",
     "x = y + 1", "Moving slowly", "payments"}

TokOptions == [DOMAIN DefaultTokenizationOptions -> BOOLEAN]

\* the tokens given to _stem: every stem with every ending, the endings of
\* the rules and endings that hold the ending of two rules
TokStems == {"", "a", "be", "ne", "pas", "test", "bless", "mov", "pay", "class"}
TokEndings ==
    {"", "ing", "ed", "s", "ss", "ly", "ment", "ings", "eds", "lys", "ments",
     "ingly", "edly", "sed", "sing", "mently"}
TokTokens == {stem \o ending : stem \in TokStems, ending \in TokEndings}

TokInit ==
    /\ bm25 = NewBM25Index(EmptyMap)
    /\ vectorIndex = NoVectorIndex
    /\ disk = NoDisk
    /\ saver = NoSaver
    /\ sess = NoSess
    /\ faiss = DefaultFaiss
    /\ lastOp = [name |-> "new"]

TokTokenize ==
    \E text \in TokTexts, options \in TokOptions :
        /\ lastOp' = [name |-> "_tokenize", text |-> text, options |-> options,
                      tokens |-> _tokenize(options, text)]
        /\ UNCHANGED <<bm25, vectorIndex, disk, faiss, saver, sess>>

TokStem ==
    \E token \in TokTokens :
        /\ lastOp' = [name |-> "_stem", token |-> token, stem |-> _stem(token)]
        /\ UNCHANGED <<bm25, vectorIndex, disk, faiss, saver, sess>>

TokNext == TokTokenize \/ TokStem

SpecTok == TokInit /\ [][TokNext]_vars

\* C26: with stemming on, tokenizing the tokens of a text, joined with single
\* spaces, gives those tokens again: a second pass changes nothing.
C26_SecondPassIsFixpoint ==
    (lastOp.name = "_tokenize" /\ lastOp.options.stemming) =>
        _tokenize(lastOp.options, JoinWords(lastOp.tokens)) = lastOp.tokens

\* the rules of the stemmer in the order the specification gives them: the
\* ending, the number of characters dropped, the ending that bars the rule
RulesAsSpecified ==
    <<[ending |-> "ing", drop |-> 3, unless |-> ""],
      [ending |-> "ed", drop |-> 2, unless |-> ""],
      [ending |-> "ly", drop |-> 2, unless |-> ""],
      [ending |-> "ment", drop |-> 4, unless |-> ""],
      [ending |-> "s", drop |-> 1, unless |-> "ss"]>>

\* whether the n-th rule applies to a token
RuleApplies(n, token) ==
    /\ endsWith(token, RulesAsSpecified[n].ending)
    /\ RulesAsSpecified[n].unless = "" \/ ~endsWith(token, RulesAsSpecified[n].unless)

\* C27: a token of three characters or less is returned as it is; for a
\* longer token at most one rule applies, and _stem returns what the first
\* rule that applies in the specified order (-ing, -ed, -ly, -ment, -s not
\* -ss) makes of the token, the token itself when none applies.
C27_StemAgreesWithSpecifiedOrder ==
    lastOp.name = "_stem" =>
        LET token == lastOp.token
            applying == {n \in DOMAIN RulesAsSpecified : RuleApplies(n, token)}
        IN  /\ Len(token) <= 3 => lastOp.stem = token
            /\ Cardinality(applying) <= 1
            /\ Len(token) > 3 =>
                   lastOp.stem =
                       IF applying = {} THEN token
                       ELSE SubSeq(token, 1,
                                   Len(token) - RulesAsSpecified[First(applying)].drop)

\* C27 witness: _stem was called on a token that ends in -s and holds the
\* ending of another rule before it, and the rule of -s was the one applied.
C27_Witness ==
    /\ lastOp.name = "_stem"
    /\ lastOp.token = "testings"
    /\ lastOp.stem = "testing"

-----------------------------------------------------------------------------
(* Properties of the query expander, checked under SpecRank *)

\* whether the text sub occurs in the text s
Contains(s, sub) == sub = "" \/ IndexOfFrom(s, sub, 1) # 0

\* the spans the patterns of prepareQueryForSearch capture in a raw query
CapturedSpans(rawQuery) ==
    Range(ErrorCaptures(rawQuery, toLowerCase(rawQuery), 1))
        \cup Range(matchStackFrames(rawQuery, 1))
        \cup Range(matchFileNames(rawQuery, 1))
        \cup Range(matchFunctionCalls(rawQuery, 1))
        \cup Range(matchImports(rawQuery, 1))
        \cup Range(matchRequires(rawQuery, 1))

-----------------------------------------------------------------------------
(* Consistency of the BM25 index, checked under SpecBM25 *)

\* the sum of the frequencies of the postings that the posting lists of the
\* terms hold for the document at docIndex
RECURSIVE FrequencySum(_, _, _)
FrequencySum(idx, docIndex, terms) ==
    IF terms = {} THEN 0
    ELSE LET t == CHOOSE x \in terms : TRUE
             ofDoc == SelectSeq(idx.invertedIndex[t], LAMBDA p : p.docIndex = docIndex)
         IN  SeqSum([i \in DOMAIN ofDoc |-> ofDoc[i].frequency])
                 + FrequencySum(idx, docIndex, terms \ {t})

\* C29: in every state reached by addDocument, addDocuments, save and load the
\* index is consistent: documentCount is the number of documents, of document
\* lengths and of metadata entries; every posting list holds strictly
\* increasing document indices below documentCount with frequencies of 1 or
\* more; the frequencies of the postings of a document sum to its length; the
\* average length times documentCount is the sum of the lengths; and the
\* vocabulary is the set of the terms that have a posting list.
C29_IndexIsConsistent ==
    LET N == bm25.documentCount
    IN  /\ N = Len(bm25.documents)
        /\ N = Len(bm25.documentLengths)
        /\ N = Cardinality(DOMAIN bm25.documentMetadata)
        /\ \A t \in DOMAIN bm25.invertedIndex :
               LET postings == bm25.invertedIndex[t]
               IN  /\ postings # <<>>
                   /\ \A i \in DOMAIN postings :
                          /\ postings[i].docIndex \in 0..(N - 1)
                          /\ postings[i].frequency >= 1
                          /\ i > 1 => postings[i - 1].docIndex < postings[i].docIndex
        /\ \A docIndex \in 0..(N - 1) :
               FrequencySum(bm25, docIndex, DOMAIN bm25.invertedIndex)
                   = bm25.documentLengths[docIndex + 1]
        /\ bm25.averageDocumentLength.num * N
               = SeqSum(bm25.documentLengths) * bm25.averageDocumentLength.den
        /\ bm25.vocabulary = DOMAIN bm25.invertedIndex

\* C29 witness: an index of three documents of different lengths, one of them
\* without a token, and with a term that two documents hold, was saved and
\* loaded back.
C29_Witness ==
    /\ lastOp.name = "load"
    /\ lastOp.ok
    /\ bm25.documentCount = 3
    /\ Cardinality(Range(bm25.documentLengths)) = 3
    /\ 0 \in Range(bm25.documentLengths)
    /\ \E t \in DOMAIN bm25.invertedIndex : Len(bm25.invertedIndex[t]) >= 2

-----------------------------------------------------------------------------
(* Specification of the vector store over a store that can reject a vector:  *)
(* one index wrapper and the calls of addToIndex, which return or throw      *)
(* because index.add throws for one of the vectors, and of searchIndex.      *)

\* the greatest number of vectors in the store
MaxStored == 4

StoredValues == {2, 3}

\* batches of one or two chunks with embeddings of the right dimension
AddBatches ==
    {<<VecChunk(1, Float32Array(Fill(EMBEDDING_DIMENSION, v)))>> : v \in StoredValues}
        \cup {<<VecChunk(1, Float32Array(Fill(EMBEDDING_DIMENSION, v))),
                VecChunk(2, Float32Array(Fill(EMBEDDING_DIMENSION, w)))>> :
                v \in StoredValues, w \in StoredValues}

AddInit ==
    /\ vectorIndex = createFAISSIndex(EmptyMap)
    /\ bm25 = NewBM25Index(EmptyMap)
    /\ disk = NoDisk
    /\ saver = NoSaver
    /\ sess = NoSess
    /\ faiss = DefaultFaiss
    /\ lastOp = [name |-> "new"]

AddAddToIndex ==
    \E chunks \in AddBatches :
        /\ Len(vectorIndex.index.vectors) + Len(chunks) <= MaxStored
        /\ vectorIndex' = addToIndex(vectorIndex, chunks)
        /\ lastOp' = [name |-> "addToIndex", ok |-> TRUE, chunks |-> chunks,
                      before |-> vectorIndex.size]
        /\ UNCHANGED <<bm25, disk, faiss, saver, sess>>

AddAddToIndexRejected ==
    \E chunks \in AddBatches, rejected \in 1..2 :
        /\ rejected <= Len(chunks)
        /\ Len(vectorIndex.index.vectors) + Len(chunks) <= MaxStored
        /\ vectorIndex' = addToIndexRejected(vectorIndex, chunks, rejected)
        /\ lastOp' = [name |-> "addToIndex", ok |-> FALSE, chunks |-> chunks,
                      before |-> vectorIndex.size]
        /\ UNCHANGED <<bm25, disk, faiss, saver, sess>>

AddSearchIndex ==
    \E queryEmbedding \in VecQueries, k \in 1..MaxStored :
        /\ lastOp' = [name |-> "searchIndex", query |-> queryEmbedding, k |-> k,
                      results |-> searchIndex(vectorIndex, queryEmbedding, k)]
        /\ UNCHANGED <<bm25, vectorIndex, disk, faiss, saver, sess>>

AddNext == AddAddToIndex \/ AddAddToIndexRejected \/ AddSearchIndex

SpecAdd == AddInit /\ [][AddNext]_vars

\* C30: addToIndex is all or nothing for the wrapper: in every state, also
\* after a call that threw because the store rejected a vector, the size of
\* the wrapper is the number of vectors in the store and the number of
\* metadata entries; and after a call that returned, each chunk it added has
\* its metadata under the id at which the store holds its vector.
C30_AddIsAllOrNothing ==
    /\ vectorIndex.size = Len(vectorIndex.index.vectors)
    /\ vectorIndex.size = Cardinality(DOMAIN vectorIndex.idToMetadata)
    /\ (lastOp.name = "addToIndex" /\ lastOp.ok) =>
           \A i \in DOMAIN lastOp.chunks :
               \E id \in DOMAIN vectorIndex.idToMetadata :
                   /\ id >= lastOp.before
                   /\ vectorIndex.idToMetadata[id] = WithoutEmbedding(lastOp.chunks[i])
                   /\ id + 1 \in DOMAIN vectorIndex.index.vectors
                   /\ vectorIndex.index.vectors[id + 1] = lastOp.chunks[i].embedding.data

====
